---- MODULE Spec2Model ----
(***************************************************************************)
(* A model of the vscode-time-tracking extension: the session state        *)
(* machine (TimeTrackerModel), the day-partitioned CSV store               *)
(* (DatabaseService), the webhook sink (WebhookService) and the idle       *)
(* monitor (IdleDetector).                                                 *)
(*                                                                         *)
(* The extension host runs every handler to completion on one event loop,  *)
(* so a handler is a sequence of steps that no other handler interleaves   *)
(* with; pc holds the steps the running handler still has to take.  The    *)
(* wall clock is taken to be non-decreasing: now is its latest reading,    *)
(* and every Date.now() / new Date() reads that value or a later one.      *)
(* The file system calls of the store are taken to succeed, except in      *)
(* SpecFault.                                                              *)
(*                                                                         *)
(* Specifications: Spec (tracker, store, webhook), SpecIdle (idle          *)
(* monitor), SpecPrompt (tracker with the idle prompt), SpecEdit (tracker  *)
(* with the category and notes commands), SpecStore and SpecZone (the      *)
(* store called directly, in UTC and in other time zones), SpecCsv (the    *)
(* text of a day file written and read back), SpecFault (saveSession with  *)
(* failing writes and crashes), SpecStats (getCategoryStats), SpecMigrate  *)
(* (migrateFromSingleFile), SpecHook (tracker with webhook deliveries      *)
(* that can fail), SpecDismiss (tracker, idle monitor and prompt with the  *)
(* notification reference), SpecCsvSave (saveSession on the text of a day  *)
(* file), SpecExt and SpecExtLive (the end of activate with auto-track,    *)
(* the commands and the configuration and folder handlers; SpecExtLive     *)
(* with the auto-start timer firing), SpecLateEdit and SpecLatePrompt (a   *)
(* quick pick, input box or idle prompt answered after the tracker has     *)
(* moved on).                                                              *)
(***************************************************************************)
EXTENDS Integers, Sequences, FiniteSets

(***************************************************************************)
(* Bounds of the model.                                                    *)
(***************************************************************************)
MaxTick == 2       \* readings of the wall clock after the first one
MaxStarts == 2     \* sessions one run of the tracker creates
MaxIdleSteps == 4  \* clock readings of the idle monitor after the first one
MaxMonitors == 2   \* startMonitoring calls in one run
MaxChecks == 2     \* checks over the threshold that idleChecked counts
MaxPrompts == 1    \* idle prompts that can be open at the same time
MaxPromptStarts == 1  \* sessions and monitors in the runs with the prompts
MaxFolders == 1    \* workspace folders
MaxExtStarts == 2  \* sessions in the runs of the extension's handlers
MaxExtMonitors == 2  \* startMonitoring calls in those runs
MaxLateStarts == 2 \* sessions in the runs with a late answer
MaxPicks == 1      \* category picks, and notes inputs, open at the same time
MaxSaves == 2      \* direct calls of saveSession
MaxZoneSaves == 1  \* the same in the runs with a time zone
MaxLen == 3        \* characters of fileName and notes together
MaxLines == 2      \* data lines of an edited day file
MaxFaultSaves == 2 \* calls of saveSession in the runs with failing writes
MaxStatsSaves == 2 \* calls of saveSession in the runs with the statistics
MaxMigrations == 2 \* completed calls of migrateFromSingleFile
MaxMigrSaves == 1  \* calls of saveSession in the runs with the migration
MaxHookStarts == 2 \* sessions in the runs with webhook deliveries

(***************************************************************************)
(* Program constants.                                                      *)
(***************************************************************************)
MsPerDay == 86400000      \* toISOString(): the date part changes every 86400000 ms
MsPerSecond == 1000       \* idleThreshold = idleThresholdSeconds * 1000
DefaultThreshold == 300   \* get("idleThreshold", 300): seconds

Undefined == <<>>         \* JavaScript undefined: an optional value is <<>> or <<v>>

\* The readings of the wall clock: two consecutive milliseconds of each day.
TimeOf(k) == (k \div 2) * MsPerDay + (k % 2)
Times == {TimeOf(k) : k \in 0..MaxTick}
IdleTimes == {k * DefaultThreshold * MsPerSecond : k \in 0..MaxIdleSteps}

\* Paths are sequences of components: fsPath split on / or \.
Files == {<<"proj", "a.ts">>, <<"tmp", "b.ts">>}
NoEditor == <<>>          \* vscode.window.activeTextEditor is undefined
WorkspaceFolders == {"proj"}
ThresholdChoices == {DefaultThreshold, 2 * DefaultThreshold}   \* timeTracking.idleThreshold
WebhookUrls == {Undefined, <<"https://example.test/hook">>}
Categories == {"Coding"}                  \* one of the eight quick-pick items
NotesInputs == {"", "fix"}                \* what the input box can return
TimezoneOffsets == {-(MsPerDay \div 2), 0, MsPerDay \div 2}   \* UTC-12, UTC, UTC+12

VARIABLES
    now,              \* the latest reading of the wall clock, in ms
    editor,           \* vscode.window.activeTextEditor?.document.uri.fsPath
    currentSession,   \* TimeTrackerModel.currentSession
    sessions,         \* TimeTrackerModel.sessions
    lastActiveFile,   \* TimeTrackerModel.lastActiveFile
    timer,            \* TimeTrackerModel.timer (0: undefined)
    activeTimers,     \* the duration-refresh intervals still scheduled
    files,            \* the per-day CSV files: date string -> data rows
    dbSessions,       \* DatabaseService.sessions
    webhookUrl,       \* WebhookService.webhookUrl
    outbox,           \* the webhook events handed to fetch
    pc,               \* the steps the running handler still has to take
    call,             \* history: the last top-level call and the state it saw
    created,          \* history: id and startTime of every session created
    events,           \* history: <<kind, n>> for the n-th created session
    lastActivity,     \* IdleDetector.lastActivity
    idleThreshold,    \* IdleDetector.idleThreshold, in ms
    idleDetected,     \* IdleDetector.idleDetected
    idleTimer,        \* IdleDetector.timer (0: undefined)
    idleActiveTimers, \* the idle-check intervals still scheduled
    idleHandles,      \* the intervals startMonitoring has created so far
    idleListeners,    \* the sets of activity listeners in IdleDetector.disposables
    idleDisposed,     \* IdleDetector.dispose() has run
    activeNotification, \* IdleDetector.activeNotification is set
    autoDismissEnabled, \* IdleDetector.autoDismissEnabled
    idleFired,        \* history: onIdleDetected calls since the last activity
    idleChecked,      \* history: checks over the threshold since the last activity (at most MaxChecks)
    returned,         \* history: onUserReturned calls since idle was last detected
    prompts,          \* the "You appear to be idle" prompts not yet answered
    categoryPicks,    \* the category quick picks not yet answered
    notesInputs,      \* the notes input boxes not yet answered
    tzOffset,         \* the machine's time zone: local time minus UTC, in ms
    saves,            \* history: the sessions handed to saveSession
    dbLoaded,         \* what the last call of loadSessions returned
    csvSession,       \* history: the session whose line the day file holds
    csvFile,          \* the text of a day file
    csvLoaded,        \* what loadSessionsFromFile returned for that text
    csvBefore,        \* history: what the day file loaded to when the last saveSession began
    csvSaved,         \* history: the session handed to that saveSession
    saving,           \* the call of saveSession that is between two of its file operations
    backups,          \* the .backup files: date string -> data rows
    messages,         \* the messages the last saveSession call has shown
    saveLog,          \* history: the last saveSession call, what it found and how it ended
    down,             \* the extension host process has died and was not restarted
    durable,          \* history: <<date, id>> of the records in a day file when a save into it was interrupted
    categoryStats,    \* what the last call of getCategoryStats returned
    statsRange,       \* history: the date range of that call
    legacyFile,       \* the single CSV file of the old storage format
    legacyBak,        \* its .bak copy
    migrations,       \* history: the calls of migrateFromSingleFile so far
    migrLog,          \* history: the last call of migrateFromSingleFile, what it found and returned
    hookDone,         \* the webhook requests that have completed
    hookErrors,       \* the delivery errors written to the console
    hookRejected,     \* history: a call of sendSessionEvent has rejected
    autoTrack,        \* the setting timeTracking.autoTrack
    folders,          \* the number of workspace folders
    activationDone,   \* activate has read autoTrack and scheduled the auto-start
    autoStartTimer,   \* the setTimeout of the delayed auto-start is pending
    contextFlag,      \* the context key timeTracking.isTracking
    stopRequested,    \* history: tracking was stopped by command since activation
    autoStartLog,     \* history: what the delayed auto-start found when it fired
    pickedFor,        \* history: the session open when the add-category command was invoked
    notedFor,         \* history: the session open when the add-notes command was invoked
    editLog,          \* history: the last answer to a quick pick or input box, and where it went
    promptFor         \* history: the session open when the idle prompt was shown

sessionVars == <<editor, currentSession, sessions, lastActiveFile, timer,
                 activeTimers, files, dbSessions, webhookUrl, outbox,
                 created, events>>
trackerVars == <<sessionVars, pc, call>>
idleVars == <<lastActivity, idleThreshold, idleDetected, idleTimer,
              idleActiveTimers, idleHandles, idleListeners, idleDisposed,
              activeNotification, autoDismissEnabled, idleFired, idleChecked,
              returned>>
csvVars == <<csvSession, csvFile, csvLoaded, csvBefore, csvSaved>>
faultVars == <<saving, backups, messages, saveLog, down, durable>>
statsVars == <<categoryStats, statsRange>>
migrVars == <<legacyFile, legacyBak, migrations, migrLog>>
hookVars == <<hookDone, hookErrors, hookRejected>>
activationVars == <<autoTrack, folders, activationDone, autoStartTimer, contextFlag,
                    stopRequested, autoStartLog>>
moreVars == <<faultVars, statsVars, migrVars, hookVars, activationVars>>
lateVars == <<pickedFor, notedFor, editLog, promptFor>>
extVars == <<prompts, categoryPicks, notesInputs, tzOffset, saves, dbLoaded, csvVars, moreVars,
             lateVars>>
vars == <<now, trackerVars, idleVars, extVars>>

(***************************************************************************)
(* Conversions.                                                            *)
(***************************************************************************)
RECURSIVE NumberToString(_)
\* Number.prototype.toString(): the decimal digits of a non-negative integer.
NumberToString(n) ==
    IF n < 10 THEN <<n>> ELSE Append(NumberToString(n \div 10), n % 10)

\* Date.prototype.toISOString(): <<date part, time part>> of "YYYY-MM-DDTHH:mm:ss.sssZ".
ToISOString(t) == <<t \div MsPerDay, t % MsPerDay>>

\* new Date(isoString).
ParseDate(iso) == iso[1] * MsPerDay + iso[2]

\* date.toISOString().split("T")[0]
formatDateToString(t) == ToISOString(t)[1]

\* Variant: every session goes to one and the same file.
getFilePathForDay_Single(t) == 0

\* path.join(baseDirectory, `time-tracking-${dateString}.csv`): one file per date string.
getFilePathForDay(t) == formatDateToString(t)

\* filePath.split(/[\\/]/).pop() || ""
FileNameOf(path) == IF Len(path) = 0 THEN "" ELSE path[Len(path)]

\* workspaceFolder ? workspaceFolder.name : "No Project"
ProjectOf(path) ==
    IF Len(path) > 0 /\ path[1] \in WorkspaceFolders THEN path[1] ELSE "No Project"

(***************************************************************************)
(* The CSV store, by records.  A data row is the sequence of its nine      *)
(* cells; the values of the sessions stored here hold no comma, quote or   *)
(* line break, so that a cell is read back as it was written.  The text of *)
(* a day file is the subject of the section on the CSV text.               *)
(***************************************************************************)
OptionalCell(value) == IF value = Undefined THEN "" ELSE value[1]

\* saveSessionsToFile: the line written for one session.
Row(s) ==
    << s.id, s.fileName, s.filePath, s.project, ToISOString(s.startTime),
       IF s.endTime = Undefined THEN <<>> ELSE ToISOString(s.endTime[1]),
       s.duration, OptionalCell(s.category), OptionalCell(s.notes) >>

\* loadSessionsFromFile: the session read from one line.
ParseRow(values) ==
    [ id |-> values[1], fileName |-> values[2], filePath |-> values[3],
      project |-> values[4], startTime |-> ParseDate(values[5]),
      endTime |-> IF values[6] = <<>> THEN Undefined ELSE <<ParseDate(values[6])>>,
      duration |-> values[7],
      category |-> IF values[8] = "" THEN Undefined ELSE <<values[8]>>,
      notes |-> IF values[9] = "" THEN Undefined ELSE <<values[9]>> ]

\* loadSessionsFromFile(filePath): [] when the file does not exist.
loadSessionsFromFile(fs, day) ==
    IF day \in DOMAIN fs THEN [i \in 1..Len(fs[day]) |-> ParseRow(fs[day][i])] ELSE <<>>

\* ensureFileExists(filePath): creates the file with the header line only.
ensureFileExists(fs, day) ==
    IF day \in DOMAIN fs THEN fs
    ELSE [d \in DOMAIN fs \cup {day} |-> IF d = day THEN <<>> ELSE fs[d]]

\* dailySessions.findIndex((s) => s.id === session.id); 0 stands for -1.
findIndex(daily, id) ==
    IF \E i \in 1..Len(daily) : daily[i].id = id
    THEN CHOOSE i \in 1..Len(daily) :
            daily[i].id = id /\ \A j \in 1..(i - 1) : daily[j].id # id
    ELSE 0

\* Variant: the session is always added at the end.
dailyAfterSave_Append(fs, session) ==
    Append(loadSessionsFromFile(ensureFileExists(fs, getFilePathForDay(session.startTime)),
                                getFilePathForDay(session.startTime)), session)

\* saveSession: the day's sessions after the replace-or-push.
dailyAfterSave(fs, session) ==
    LET daily == loadSessionsFromFile(ensureFileExists(fs, getFilePathForDay(session.startTime)),
                                      getFilePathForDay(session.startTime))
        existingIndex == findIndex(daily, session.id)
    IN  IF existingIndex >= 1
        THEN [daily EXCEPT ![existingIndex] = session]
        ELSE Append(daily, session)

\* saveSessionsToFile(sessions, filePath): the whole day file is rewritten.
saveSessionsToFile(fs, daily, day) ==
    [d \in DOMAIN fs \cup {day} |-> IF d = day THEN [i \in 1..Len(daily) |-> Row(daily[i])] ELSE fs[d]]

\* History: no handler of the tracker is running or has just returned.
NoCall == [name |-> "none", prev |-> 0, editor |-> NoEditor]

(***************************************************************************)
(* The initial state: the extension has been activated on an empty storage *)
(* directory; no session is open.                                          *)
(***************************************************************************)
Init ==
    /\ now = 0
    /\ editor = NoEditor
    /\ currentSession = Undefined
    /\ sessions = <<>>
    /\ lastActiveFile = Undefined
    /\ timer = 0
    /\ activeTimers = {}
    /\ files = [d \in {} |-> <<>>]
    /\ dbSessions = <<>>
    /\ webhookUrl \in WebhookUrls
    /\ outbox = <<>>
    /\ pc = <<>>
    /\ call = NoCall
    /\ created = <<>>
    /\ events = <<>>
    /\ lastActivity = 0
    /\ idleThreshold = DefaultThreshold * MsPerSecond
    /\ idleDetected = FALSE
    /\ idleTimer = 0
    /\ idleActiveTimers = {}
    /\ idleHandles = 0
    /\ idleListeners = 0
    /\ idleDisposed = FALSE
    /\ activeNotification = FALSE
    /\ autoDismissEnabled = TRUE
    /\ idleFired = 0
    /\ idleChecked = 0
    /\ returned = 0
    /\ prompts = 0
    /\ categoryPicks = 0
    /\ notesInputs = 0
    /\ tzOffset = 0
    /\ saves = <<>>
    /\ dbLoaded = Undefined
    /\ csvSession = Undefined
    /\ csvFile = Undefined
    /\ csvLoaded = Undefined
    /\ csvBefore = Undefined
    /\ csvSaved = Undefined
    /\ saving = Undefined
    /\ backups = [d \in {} |-> <<>>]
    /\ messages = <<>>
    /\ saveLog = Undefined
    /\ down = FALSE
    /\ durable = {}
    /\ categoryStats = Undefined
    /\ statsRange = Undefined
    /\ legacyFile = Undefined
    /\ legacyBak = Undefined
    /\ migrations = 0
    /\ migrLog = Undefined
    /\ hookDone = 0
    /\ hookErrors = 0
    /\ hookRejected = FALSE
    /\ autoTrack = TRUE
    /\ folders = 0
    /\ activationDone = FALSE
    /\ autoStartTimer = FALSE
    /\ contextFlag = FALSE
    /\ stopRequested = FALSE
    /\ autoStartLog = Undefined
    /\ pickedFor = 0
    /\ notedFor = 0
    /\ editLog = Undefined
    /\ promptFor = 0

(***************************************************************************)
(* The environment of the tracker.                                         *)
(***************************************************************************)
\* What Date.now() / new Date() can return: the latest reading or a later one.
Readings == {t \in Times : t >= now}

\* The user opens, switches or closes the active editor.
SetEditor ==
    /\ pc = <<>>
    /\ \E e \in Files \cup {NoEditor} : e # editor /\ editor' = e
    /\ call' = NoCall
    /\ UNCHANGED <<now, currentSession, sessions, lastActiveFile, timer,
                   activeTimers, files, dbSessions, webhookUrl, outbox,
                   pc, created, events, idleVars, extVars>>

(***************************************************************************)
(* TimeTrackerModel.                                                       *)
(***************************************************************************)
isTracking == currentSession # Undefined

\* The n-th created session is the current one when n = Len(created).
currentOrdinal == Len(created)

\* endCurrentSession, after the session got its endTime and duration.
EndCurrentSessionSteps == <<"push", "saveSession">>

\* The webhook dispatch that follows the save of a completed session.
NotifyHook == <<"sendSessionEvent">>

\* startTracking, up to its call of endCurrentSession.
\* Variant: the new session is created without ending the current one.
startTrackingBody_NoRotate(rest) ==
    IF editor = NoEditor
    THEN pc' = rest
    ELSE pc' = <<"createSession">> \o rest

\* Variant: the session is saved as soon as it is created.
startTrackingBody_SaveOnStart(rest) ==
    IF editor = NoEditor
    THEN pc' = rest
    ELSE pc' = <<"endCurrentSession", "createSession", "saveSession">> \o rest

startTrackingBody(rest) ==
    IF editor = NoEditor
    THEN pc' = rest        \* "No active editor to track time for."
    ELSE pc' = <<"endCurrentSession", "createSession">> \o rest

\* The command or caller invokes startTracking().
StartTracking ==
    /\ pc = <<>>
    /\ Len(created) < MaxStarts
    /\ startTrackingBody(<<>>)
    /\ call' = [name |-> "startTracking", prev |-> IF isTracking THEN currentOrdinal ELSE 0, editor |-> editor]
    /\ UNCHANGED <<now, editor, currentSession, sessions, lastActiveFile, timer,
                   activeTimers, files, dbSessions, webhookUrl, outbox,
                   created, events, idleVars, extVars>>

\* handleEditorChange calls startTracking().
StartTrackingNested ==
    /\ pc # <<>> /\ Head(pc) = "startTracking"
    /\ startTrackingBody(Tail(pc))
    /\ UNCHANGED <<now, editor, currentSession, sessions, lastActiveFile, timer,
                   activeTimers, files, dbSessions, webhookUrl, outbox,
                   call, created, events, idleVars, extVars>>

\* The command or caller invokes stopTracking().
StopTracking ==
    /\ pc = <<>>
    /\ pc' = <<"endCurrentSession", "clearTimer">>
    /\ call' = [name |-> "stopTracking", prev |-> IF isTracking THEN currentOrdinal ELSE 0, editor |-> editor]
    /\ UNCHANGED <<now, editor, currentSession, sessions, lastActiveFile, timer,
                   activeTimers, files, dbSessions, webhookUrl, outbox,
                   created, events, idleVars, extVars>>

\* stopTracking: this.timer && clearInterval(this.timer); this.timer = undefined.
ClearTimer ==
    /\ pc # <<>> /\ Head(pc) = "clearTimer"
    /\ activeTimers' = activeTimers \ {timer}
    /\ timer' = 0
    /\ pc' = Tail(pc)
    /\ UNCHANGED <<now, editor, currentSession, sessions, lastActiveFile,
                   files, dbSessions, webhookUrl, outbox,
                   call, created, events, idleVars, extVars>>

\* Variant: the session is rotated when the file is the same.
HandleEditorChange_SamePath ==
    /\ pc = <<>>
    /\ Len(created) < MaxStarts
    /\ pc' = IF editor = NoEditor THEN <<>>
             ELSE IF isTracking /\ lastActiveFile = <<editor>>
                  THEN <<"endCurrentSession", "startTracking">>
                  ELSE <<>>
    /\ call' = [name |-> "handleEditorChange", prev |-> IF isTracking THEN currentOrdinal ELSE 0, editor |-> editor]
    /\ UNCHANGED <<now, editor, currentSession, sessions, lastActiveFile, timer,
                   activeTimers, files, dbSessions, webhookUrl, outbox,
                   created, events, idleVars, extVars>>

\* Variant: an editor change starts tracking when no session is open.
HandleEditorChange_AutoResume ==
    /\ pc = <<>>
    /\ Len(created) < MaxStarts
    /\ pc' = IF editor = NoEditor THEN <<>>
             ELSE IF ~isTracking \/ lastActiveFile # <<editor>>
                  THEN <<"endCurrentSession", "startTracking">>
                  ELSE <<>>
    /\ call' = [name |-> "handleEditorChange", prev |-> IF isTracking THEN currentOrdinal ELSE 0, editor |-> editor]
    /\ UNCHANGED <<now, editor, currentSession, sessions, lastActiveFile, timer,
                   activeTimers, files, dbSessions, webhookUrl, outbox,
                   created, events, idleVars, extVars>>

\* onDidChangeActiveTextEditor: handleEditorChange().
HandleEditorChange ==
    /\ pc = <<>>
    /\ Len(created) < MaxStarts
    /\ pc' = IF editor = NoEditor THEN <<>>
             ELSE IF isTracking /\ lastActiveFile # <<editor>>
                  THEN <<"endCurrentSession", "startTracking">>
                  ELSE <<>>
    /\ call' = [name |-> "handleEditorChange", prev |-> IF isTracking THEN currentOrdinal ELSE 0, editor |-> editor]
    /\ UNCHANGED <<now, editor, currentSession, sessions, lastActiveFile, timer,
                   activeTimers, files, dbSessions, webhookUrl, outbox,
                   created, events, idleVars, extVars>>

\* Variant: the session is handed on without endTime and final duration.
EndCurrentSession_NoEndTime ==
    /\ pc # <<>> /\ Head(pc) = "endCurrentSession"
    /\ pc' = IF currentSession = Undefined THEN Tail(pc)
             ELSE EndCurrentSessionSteps \o NotifyHook \o <<"clearCurrent">> \o Tail(pc)
    /\ UNCHANGED <<now, editor, currentSession, sessions, lastActiveFile, timer,
                   activeTimers, files, dbSessions, webhookUrl, outbox, call,
                   created, events, idleVars, extVars>>

\* endCurrentSession: nothing when no session is open; else endTime and the
\* final duration are set from one reading of the clock.
EndCurrentSession ==
    /\ pc # <<>> /\ Head(pc) = "endCurrentSession"
    /\ IF currentSession = Undefined
       THEN /\ pc' = Tail(pc)
            /\ UNCHANGED <<currentSession, events>>
            /\ now' = now
       ELSE \E t \in Readings :
            /\ now' = t
            /\ currentSession' =
                <<[currentSession[1] EXCEPT
                      !.endTime = <<t>>,
                      !.duration = t - currentSession[1].startTime]>>
            /\ events' = Append(events, <<"closed", currentOrdinal>>)
            /\ pc' = EndCurrentSessionSteps \o NotifyHook \o <<"clearCurrent">> \o Tail(pc)
    /\ UNCHANGED <<editor, sessions, lastActiveFile, timer, activeTimers,
                   files, dbSessions, webhookUrl, outbox, call, created,
                   idleVars, extVars>>

\* endCurrentSession: this.sessions.push({ ...this.currentSession }).
PushSession ==
    /\ pc # <<>> /\ Head(pc) = "push"
    /\ sessions' = Append(sessions, currentSession[1])
    /\ pc' = Tail(pc)
    /\ UNCHANGED <<now, editor, currentSession, lastActiveFile, timer,
                   activeTimers, files, dbSessions, webhookUrl, outbox,
                   call, created, events, idleVars, extVars>>

\* Variant: the day file is chosen by the date of the save, not of the start.
saveSession_ByToday(session, today) ==
    LET day == getFilePathForDay(today)
        daily == loadSessionsFromFile(ensureFileExists(files, day), day)
        existingIndex == findIndex(daily, session.id)
        dailySessions == IF existingIndex # 0
                         THEN [daily EXCEPT ![existingIndex] = session]
                         ELSE Append(daily, session)
    IN  /\ dbSessions' = dailySessions
        /\ files' = saveSessionsToFile(ensureFileExists(files, day), dailySessions, day)

\* DatabaseService.saveSession(session): the day file of the session's start
\* date is read, the session replaces the record with its id or is added, the
\* cache is refreshed when that date is today, and the day file is rewritten.
saveSession(session, today) ==
    LET day == getFilePathForDay(session.startTime)
        dailySessions == dailyAfterSave(files, session)
    IN  /\ dbSessions' = IF formatDateToString(session.startTime) = formatDateToString(today)
                         THEN dailySessions ELSE dbSessions
        /\ files' = saveSessionsToFile(ensureFileExists(files, day), dailySessions, day)

\* endCurrentSession: this.dbService.saveSession(this.currentSession).
SaveSession ==
    /\ pc # <<>> /\ Head(pc) = "saveSession"
    /\ \E t \in Readings : now' = t /\ saveSession(currentSession[1], t)
    /\ events' = Append(events, <<"write", currentOrdinal>>)
    /\ pc' = Tail(pc)
    /\ UNCHANGED <<editor, currentSession, sessions, lastActiveFile, timer,
                   activeTimers, webhookUrl, outbox, call, created,
                   idleVars, extVars>>

\* WebhookService.sendSessionEvent(session): nothing without a configured URL,
\* else the time.session.completed event of the session is handed to fetch.
sendSessionEvent(session) ==
    IF webhookUrl = Undefined
    THEN UNCHANGED <<outbox, events>>
    ELSE /\ outbox' = Append(outbox,
                [type |-> "time.session.completed", sessionId |-> session.id,
                 filePath |-> session.filePath, startTime |-> ToISOString(session.startTime),
                 endTime |-> IF session.endTime = Undefined THEN Undefined
                             ELSE <<ToISOString(session.endTime[1])>>,
                 duration |-> session.duration])
         /\ events' = Append(events, <<"notify", currentOrdinal>>)

\* The completed session is handed to the webhook service.
SendSessionEvent ==
    /\ pc # <<>> /\ Head(pc) = "sendSessionEvent"
    /\ sendSessionEvent(currentSession[1])
    /\ pc' = Tail(pc)
    /\ UNCHANGED <<now, editor, currentSession, sessions, lastActiveFile, timer,
                   activeTimers, files, dbSessions, webhookUrl, call,
                   created, idleVars, extVars>>

\* endCurrentSession: this.currentSession = undefined.
ClearCurrent ==
    /\ pc # <<>> /\ Head(pc) = "clearCurrent"
    /\ currentSession' = Undefined
    /\ pc' = Tail(pc)
    /\ UNCHANGED <<now, editor, sessions, lastActiveFile, timer, activeTimers,
                   files, dbSessions, webhookUrl, outbox, call, created,
                   events, idleVars, extVars>>

\* Variant: the new session is dated from the start of the session closed last.
CreateSession_FromLastStart ==
    /\ pc # <<>> /\ Head(pc) = "createSession"
    /\ \E t1 \in Readings : \E t2 \in {t \in Times : t >= t1} :
          /\ now' = t2
          /\ currentSession' =
                <<[id |-> NumberToString(t1), fileName |-> FileNameOf(editor),
                   filePath |-> editor, project |-> ProjectOf(editor),
                   startTime |-> IF sessions = <<>> THEN t2
                                 ELSE sessions[Len(sessions)].startTime,
                   endTime |-> Undefined, duration |-> 0,
                   category |-> Undefined, notes |-> Undefined]>>
          /\ created' = Append(created, [id |-> NumberToString(t1),
                                       startTime |-> IF sessions = <<>> THEN t2
                                                     ELSE sessions[Len(sessions)].startTime,
                                       filePath |-> editor])
    /\ lastActiveFile' = <<editor>>
    /\ events' = Append(events, <<"open", Len(created) + 1>>)
    /\ timer' = Len(created) + 1
    /\ activeTimers' = activeTimers \cup {Len(created) + 1}
    /\ pc' = Tail(pc)
    /\ UNCHANGED <<editor, sessions, files, dbSessions, webhookUrl, outbox,
                   call, idleVars, extVars>>

\* startTracking: the new session (id: Date.now().toString(), then
\* startTime: new Date(), duration: 0), lastActiveFile and the
\* duration-refresh interval.
CreateSession ==
    /\ pc # <<>> /\ Head(pc) = "createSession"
    /\ \E t1 \in Readings : \E t2 \in {t \in Times : t >= t1} :
          /\ now' = t2
          /\ currentSession' =
                <<[id |-> NumberToString(t1), fileName |-> FileNameOf(editor),
                   filePath |-> editor, project |-> ProjectOf(editor),
                   startTime |-> t2, endTime |-> Undefined, duration |-> 0,
                   category |-> Undefined, notes |-> Undefined]>>
          /\ created' = Append(created, [id |-> NumberToString(t1), startTime |-> t2,
                                       filePath |-> editor])
    /\ lastActiveFile' = <<editor>>
    /\ events' = Append(events, <<"open", Len(created) + 1>>)
    /\ timer' = Len(created) + 1
    /\ activeTimers' = activeTimers \cup {Len(created) + 1}
    /\ pc' = Tail(pc)
    /\ UNCHANGED <<editor, sessions, files, dbSessions, webhookUrl, outbox,
                   call, idleVars, extVars>>

\* Variant: the list holds the session object itself, not a copy, so the
\* refresh also rewrites the duration of the session closed last.
UpdateCurrentSessionDuration_Alias ==
    /\ pc = <<>>
    /\ activeTimers # {}
    /\ \E t \in Readings :
          /\ now' = t
          /\ currentSession' =
                IF currentSession # Undefined
                THEN <<[currentSession[1] EXCEPT !.duration = t - currentSession[1].startTime]>>
                ELSE currentSession
          /\ sessions' =
                IF sessions # <<>>
                THEN [sessions EXCEPT ![Len(sessions)].duration = t - sessions[Len(sessions)].startTime]
                ELSE sessions
    /\ call' = NoCall
    /\ UNCHANGED <<editor, lastActiveFile, timer, activeTimers,
                   files, dbSessions, webhookUrl, outbox, pc,
                   created, events, idleVars, extVars>>

\* The duration-refresh interval fires: updateCurrentSessionDuration().
UpdateCurrentSessionDuration ==
    /\ pc = <<>>
    /\ activeTimers # {}
    /\ \E t \in Readings :
          /\ now' = IF currentSession # Undefined THEN t ELSE now
          /\ currentSession' =
                IF currentSession # Undefined
                THEN <<[currentSession[1] EXCEPT !.duration = t - currentSession[1].startTime]>>
                ELSE currentSession
    /\ call' = NoCall
    /\ UNCHANGED <<editor, sessions, lastActiveFile, timer, activeTimers,
                   files, dbSessions, webhookUrl, outbox, pc,
                   created, events, idleVars, extVars>>

Next ==
    \/ SetEditor
    \/ StartTracking
    \/ StartTrackingNested
    \/ StopTracking
    \/ ClearTimer
    \/ HandleEditorChange
    \/ EndCurrentSession
    \/ PushSession
    \/ SaveSession
    \/ SendSessionEvent
    \/ ClearCurrent
    \/ CreateSession
    \/ UpdateCurrentSessionDuration

Spec == Init /\ [][Next]_vars

(***************************************************************************)
(* IdleDetector.                                                           *)
(***************************************************************************)
\* What Date.now() can return to the idle monitor.
IdleReadings == {t \in IdleTimes : t >= now}

\* startMonitoring(): the activity listeners are registered and a new
\* idle-check interval is scheduled; this.timer holds the newest one.
StartMonitoring ==
    /\ pc = <<>>
    /\ ~idleDisposed
    /\ idleHandles < MaxMonitors
    /\ idleHandles' = idleHandles + 1
    /\ idleListeners' = idleListeners + 1
    /\ idleTimer' = idleHandles + 1
    /\ idleActiveTimers' = idleActiveTimers \cup {idleHandles + 1}
    /\ UNCHANGED <<now, trackerVars, extVars, lastActivity, idleThreshold, idleDetected,
                   idleDisposed, activeNotification, autoDismissEnabled,
                   idleFired, idleChecked, returned>>

\* stopMonitoring(): if (this.timer) { clearInterval(this.timer); this.timer = undefined }.
stopMonitoring ==
    /\ idleActiveTimers' = IF idleTimer # 0 THEN idleActiveTimers \ {idleTimer}
                           ELSE idleActiveTimers
    /\ idleTimer' = 0

\* A command or configuration handler calls stopMonitoring().
StopMonitoring ==
    /\ ~idleDisposed
    /\ stopMonitoring
    /\ UNCHANGED <<now, trackerVars, extVars, lastActivity, idleThreshold, idleDetected,
                   idleHandles, idleListeners, idleDisposed, activeNotification,
                   autoDismissEnabled, idleFired, idleChecked, returned>>

\* dispose(): stopMonitoring(), then every listener in disposables is disposed.
Dispose ==
    /\ ~idleDisposed
    /\ stopMonitoring
    /\ idleListeners' = 0
    /\ idleDisposed' = TRUE
    /\ UNCHANGED <<now, trackerVars, extVars, lastActivity, idleThreshold, idleDetected,
                   idleHandles, activeNotification, autoDismissEnabled,
                   idleFired, idleChecked, returned>>

\* setActiveNotification(notification).
SetActiveNotification ==
    /\ activeNotification' = TRUE
    /\ UNCHANGED <<now, trackerVars, extVars, lastActivity, idleThreshold, idleDetected,
                   idleTimer, idleActiveTimers, idleHandles, idleListeners,
                   idleDisposed, autoDismissEnabled, idleFired, idleChecked,
                   returned>>

\* clearActiveNotification().
ClearActiveNotification ==
    /\ activeNotification' = FALSE
    /\ UNCHANGED <<now, trackerVars, extVars, lastActivity, idleThreshold, idleDetected,
                   idleTimer, idleActiveTimers, idleHandles, idleListeners,
                   idleDisposed, autoDismissEnabled, idleFired, idleChecked,
                   returned>>

\* Variant: onUserReturned is called on every activity.
recordActivity_AlwaysReturns ==
    /\ \E t \in IdleReadings : now' = t /\ lastActivity' = t
    /\ idleDetected' = FALSE
    /\ activeNotification' =
          IF idleDetected /\ activeNotification /\ autoDismissEnabled
          THEN FALSE ELSE activeNotification
    /\ returned' = returned + 1

\* recordActivity(): lastActivity = Date.now(); when idle had been detected,
\* the idle state is reset, a pending notification is dismissed (auto-dismiss)
\* and onUserReturned is called.
recordActivity ==
    /\ \E t \in IdleReadings : now' = t /\ lastActivity' = t
    /\ idleDetected' = FALSE
    /\ activeNotification' =
          IF idleDetected /\ activeNotification /\ autoDismissEnabled
          THEN FALSE ELSE activeNotification
    /\ returned' = IF idleDetected THEN returned + 1 ELSE returned

\* One of the activity listeners registered by startMonitoring runs.
RecordActivity ==
    /\ pc = <<>>
    /\ idleListeners > 0
    /\ recordActivity
    /\ idleFired' = 0
    /\ idleChecked' = 0
    /\ UNCHANGED <<trackerVars, extVars, idleThreshold, idleTimer, idleActiveTimers,
                   idleHandles, idleListeners, idleDisposed,
                   autoDismissEnabled>>

\* Variant: tracking is stopped as soon as idle is detected.
onIdleDetected_AutoStop ==
    /\ prompts' = prompts
    /\ promptFor' = promptFor
    /\ pc' = IF isTracking THEN <<"endCurrentSession", "clearTimer">> ELSE pc

\* The onIdleDetected callback of the extension: when a session is open the
\* "You appear to be idle" prompt is shown; nothing else happens.
onIdleDetected ==
    /\ prompts' = IF isTracking THEN prompts + 1 ELSE prompts
    /\ promptFor' = IF isTracking THEN currentOrdinal ELSE promptFor
    /\ pc' = pc

\* Variant: the check does not look at idleDetected.
CheckIdleState_NoLatch ==
    /\ pc = <<>>
    /\ idleActiveTimers # {}
    /\ \E t \in IdleReadings :
          /\ now' = t
          /\ idleChecked' = IF t - lastActivity > idleThreshold /\ idleChecked < MaxChecks
                            THEN idleChecked + 1 ELSE idleChecked
          /\ IF t - lastActivity > idleThreshold
             THEN /\ isTracking => prompts < MaxPrompts
                  /\ idleDetected' = TRUE
                  /\ idleFired' = idleFired + 1
                  /\ returned' = 0
                  /\ onIdleDetected
             ELSE UNCHANGED <<idleDetected, idleFired, returned, prompts, pc, promptFor>>
    /\ call' = [name |-> "checkIdleState", prev |-> IF isTracking THEN currentOrdinal ELSE 0, editor |-> editor]
    /\ UNCHANGED <<sessionVars, lastActivity, idleThreshold, idleTimer,
                   idleActiveTimers, idleHandles, idleListeners, idleDisposed,
                   activeNotification, autoDismissEnabled, categoryPicks,
                   notesInputs, tzOffset, saves, dbLoaded, csvVars, moreVars, pickedFor,
                   notedFor, editLog>>

\* One of the scheduled intervals fires: checkIdleState().
CheckIdleState ==
    /\ pc = <<>>
    /\ idleActiveTimers # {}
    /\ \E t \in IdleReadings :
          /\ now' = t
          /\ idleChecked' = IF t - lastActivity > idleThreshold /\ idleChecked < MaxChecks
                            THEN idleChecked + 1 ELSE idleChecked
          /\ IF t - lastActivity > idleThreshold /\ ~idleDetected
             THEN /\ isTracking => prompts < MaxPrompts
                  /\ idleDetected' = TRUE
                  /\ idleFired' = idleFired + 1
                  /\ returned' = 0
                  /\ onIdleDetected
             ELSE UNCHANGED <<idleDetected, idleFired, returned, prompts, pc, promptFor>>
    /\ call' = [name |-> "checkIdleState", prev |-> IF isTracking THEN currentOrdinal ELSE 0, editor |-> editor]
    /\ UNCHANGED <<sessionVars, lastActivity, idleThreshold, idleTimer,
                   idleActiveTimers, idleHandles, idleListeners, idleDisposed,
                   activeNotification, autoDismissEnabled, categoryPicks,
                   notesInputs, tzOffset, saves, dbLoaded, csvVars, moreVars, pickedFor,
                   notedFor, editLog>>

\* What the user can answer to the idle prompt; Undefined: dismissed.
Selections == {Undefined, <<"Continue Tracking">>, <<"Stop Tracking">>}

\* The idle prompt is answered: .then((selection) => { if (selection ===
\* "Stop Tracking") timeTracker.stopTracking() }).
PromptSelection ==
    /\ pc = <<>>
    /\ prompts > 0
    /\ prompts' = prompts - 1
    /\ \E selection \in Selections :
          /\ pc' = IF selection = <<"Stop Tracking">>
                   THEN <<"endCurrentSession", "clearTimer">> ELSE <<>>
          /\ call' = [name |-> IF selection = <<"Stop Tracking">>
                               THEN "promptStop" ELSE "promptKeep",
                      prev |-> IF isTracking THEN currentOrdinal ELSE 0,
                      editor |-> editor]
    /\ UNCHANGED <<now, sessionVars, idleVars, categoryPicks, notesInputs,
                   tzOffset, saves, dbLoaded, csvVars, moreVars, lateVars>>

\* onDidChangeConfiguration: updateIdleThresholdFromConfig().
UpdateIdleThresholdFromConfig ==
    /\ ~idleDisposed
    /\ \E c \in ThresholdChoices :
          c * MsPerSecond # idleThreshold /\ idleThreshold' = c * MsPerSecond
    /\ UNCHANGED <<now, trackerVars, extVars, lastActivity, idleDetected, idleTimer,
                   idleActiveTimers, idleHandles, idleListeners, idleDisposed,
                   activeNotification, autoDismissEnabled, idleFired,
                   idleChecked, returned>>

\* onDidChangeConfiguration: updateAutoDismissFromConfig().
UpdateAutoDismissFromConfig ==
    /\ ~idleDisposed
    /\ autoDismissEnabled' = ~autoDismissEnabled
    /\ UNCHANGED <<now, trackerVars, extVars, lastActivity, idleThreshold, idleDetected,
                   idleTimer, idleActiveTimers, idleHandles, idleListeners,
                   idleDisposed, activeNotification, idleFired, idleChecked,
                   returned>>

NextIdle ==
    \/ StartMonitoring
    \/ StopMonitoring
    \/ Dispose
    \/ SetActiveNotification
    \/ ClearActiveNotification
    \/ RecordActivity
    \/ CheckIdleState
    \/ UpdateIdleThresholdFromConfig
    \/ UpdateAutoDismissFromConfig

SpecIdle == Init /\ [][NextIdle]_vars

(***************************************************************************)
(* Category and notes of the current session.                              *)
(***************************************************************************)
\* Variant: without an open session the category goes to the session closed last.
setCategoryForCurrentSession_Last(category) ==
    IF currentSession # Undefined
    THEN /\ currentSession' = <<[currentSession[1] EXCEPT !.category = <<category>>]>>
         /\ sessions' = sessions
    ELSE /\ currentSession' = currentSession
         /\ sessions' = IF sessions = <<>> THEN sessions
                        ELSE [sessions EXCEPT ![Len(sessions)].category = <<category>>]

\* setCategoryForCurrentSession(category).
setCategoryForCurrentSession(category) ==
    /\ currentSession' =
          IF currentSession # Undefined
          THEN <<[currentSession[1] EXCEPT !.category = <<category>>]>>
          ELSE currentSession
    /\ sessions' = sessions

\* addNotesToCurrentSession(notes).
addNotesToCurrentSession(notes) ==
    /\ currentSession' =
          IF currentSession # Undefined
          THEN <<[currentSession[1] EXCEPT !.notes = <<notes>>]>>
          ELSE currentSession
    /\ sessions' = sessions

\* time-tracking.addCategory: without an open session the warning "No active
\* tracking session to categorize." and return; else the quick pick is shown.
AddCategoryCommand ==
    /\ pc = <<>>
    /\ isTracking => categoryPicks < MaxPicks
    /\ categoryPicks' = IF isTracking THEN categoryPicks + 1 ELSE categoryPicks
    /\ pickedFor' = IF isTracking THEN currentOrdinal ELSE pickedFor
    /\ call' = [name |-> IF isTracking THEN "addCategory" ELSE "addCategoryRejected",
                prev |-> IF isTracking THEN currentOrdinal ELSE 0, editor |-> editor]
    /\ UNCHANGED <<now, sessionVars, idleVars, prompts, notesInputs, pc,
                   tzOffset, saves, dbLoaded, csvVars, moreVars, notedFor, editLog,
                   promptFor>>

\* The quick pick is answered: if (category) setCategoryForCurrentSession(category).
PickCategory ==
    /\ pc = <<>>
    /\ categoryPicks > 0
    /\ categoryPicks' = categoryPicks - 1
    /\ \E category \in {Undefined} \cup {<<c>> : c \in Categories} :
          /\ IF category # Undefined
             THEN setCategoryForCurrentSession(category[1])
             ELSE UNCHANGED <<currentSession, sessions>>
          /\ editLog' = <<[kind |-> "category", askedFor |-> pickedFor,
                           appliedTo |-> IF category # Undefined /\ isTracking
                                         THEN currentOrdinal ELSE 0,
                           message |-> category # Undefined]>>
    /\ call' = [name |-> "pickCategory", prev |-> IF isTracking THEN currentOrdinal ELSE 0, editor |-> editor]
    /\ UNCHANGED <<now, editor, lastActiveFile, timer, activeTimers, files,
                   dbSessions, webhookUrl, outbox, created, events, idleVars,
                   prompts, notesInputs, pc, tzOffset, saves, dbLoaded, csvVars, moreVars,
                   pickedFor, notedFor, promptFor>>

\* time-tracking.addNotes: without an open session the warning "No active
\* tracking session to add notes to." and return; else the input box is shown.
AddNotesCommand ==
    /\ pc = <<>>
    /\ isTracking => notesInputs < MaxPicks
    /\ notesInputs' = IF isTracking THEN notesInputs + 1 ELSE notesInputs
    /\ notedFor' = IF isTracking THEN currentOrdinal ELSE notedFor
    /\ call' = [name |-> IF isTracking THEN "addNotes" ELSE "addNotesRejected",
                prev |-> IF isTracking THEN currentOrdinal ELSE 0, editor |-> editor]
    /\ UNCHANGED <<now, sessionVars, idleVars, prompts, categoryPicks, pc,
                   tzOffset, saves, dbLoaded, csvVars, moreVars, pickedFor, editLog,
                   promptFor>>

\* The input box is answered: if (notes) addNotesToCurrentSession(notes).
EnterNotes ==
    /\ pc = <<>>
    /\ notesInputs > 0
    /\ notesInputs' = notesInputs - 1
    /\ \E notes \in {Undefined} \cup {<<n>> : n \in NotesInputs} :
          /\ IF notes # Undefined /\ notes # <<"">>
             THEN addNotesToCurrentSession(notes[1])
             ELSE UNCHANGED <<currentSession, sessions>>
          /\ editLog' = <<[kind |-> "notes", askedFor |-> notedFor,
                           appliedTo |-> IF notes # Undefined /\ notes # <<"">> /\ isTracking
                                         THEN currentOrdinal ELSE 0,
                           message |-> notes # Undefined /\ notes # <<"">>]>>
    /\ call' = [name |-> "enterNotes", prev |-> IF isTracking THEN currentOrdinal ELSE 0, editor |-> editor]
    /\ UNCHANGED <<now, editor, lastActiveFile, timer, activeTimers, files,
                   dbSessions, webhookUrl, outbox, created, events, idleVars,
                   prompts, categoryPicks, pc, tzOffset, saves, dbLoaded, csvVars, moreVars,
                   pickedFor, notedFor, promptFor>>

\* The initial state when no webhook is configured.
InitPrompt == Init /\ webhookUrl = Undefined

\* The user opens a.ts and keeps it in the editor.
EditSetEditor == SetEditor /\ editor = NoEditor /\ editor' = <<"proj", "a.ts">>
EditStartTracking == StartTracking /\ Len(created) < MaxPromptStarts

NextEdit ==
    \/ EditSetEditor
    \/ EditStartTracking
    \/ StopTracking
    \/ ClearTimer
    \/ EndCurrentSession
    \/ PushSession
    \/ SaveSession
    \/ SendSessionEvent
    \/ ClearCurrent
    \/ CreateSession
    \/ AddCategoryCommand
    \/ PickCategory
    \/ AddNotesCommand
    \/ EnterNotes

SpecEdit == InitPrompt /\ [][NextEdit]_vars

(***************************************************************************)
(* DatabaseService on its own: saveSession and loadSessions called with    *)
(* any session and any date range.                                         *)
(***************************************************************************)
\* The sessions handed to saveSession: completed sessions of one file.
StoreSessions ==
    [ id : {NumberToString(1), NumberToString(2)}, fileName : {"a.ts"},
      filePath : {<<"proj", "a.ts">>}, project : {"proj"}, startTime : Times,
      endTime : {<<TimeOf(MaxTick)>>}, duration : {0},
      category : {Undefined}, notes : {Undefined, <<"fix">>} ]

\* allSessions.sort((a, b) => a.startTime.getTime() - b.startTime.getTime()):
\* x put into the sorted list, after the elements that do not come later.
RECURSIVE InsertByStartTime(_, _)
InsertByStartTime(sorted, x) ==
    IF sorted = <<>> THEN <<x>>
    ELSE IF Head(sorted).startTime <= x.startTime
         THEN <<Head(sorted)>> \o InsertByStartTime(Tail(sorted), x)
         ELSE <<x>> \o sorted

RECURSIVE SortByStartTime(_)
SortByStartTime(all) ==
    IF all = <<>> THEN <<>>
    ELSE InsertByStartTime(SortByStartTime(SubSeq(all, 1, Len(all) - 1)), all[Len(all)])

\* loadSessions(startDate, endDate), the loop: the day file of currentDate,
\* then currentDate.setDate(currentDate.getDate() + 1), while currentDate <= endDate.
RECURSIVE loadDateRange(_, _, _)
loadDateRange(fs, currentDate, endDate) ==
    IF currentDate > endDate THEN <<>>
    ELSE loadSessionsFromFile(fs, getFilePathForDay(currentDate))
            \o loadDateRange(fs, currentDate + MsPerDay, endDate)

\* loadSessions(), the loop over getAvailableDataFiles(): every day file.
RECURSIVE loadAvailableFiles(_, _)
loadAvailableFiles(fs, days) ==
    IF days = {} THEN <<>>
    ELSE LET first == CHOOSE d \in days : \A e \in days : d <= e
         IN  loadSessionsFromFile(fs, first) \o loadAvailableFiles(fs, days \ {first})

\* DatabaseService.loadSessions(startDate?, endDate?): range is <<>> or
\* <<startDate, endDate>>.
loadSessions(fs, range) ==
    SortByStartTime(IF range # Undefined
                    THEN loadDateRange(fs, range[1], range[2])
                    ELSE loadAvailableFiles(fs, DOMAIN fs))

\* The time zone of the machine, fixed before the first save.
SetTimezone ==
    /\ pc = <<>>
    /\ saves = <<>>
    /\ \E z \in TimezoneOffsets : z # tzOffset /\ tzOffset' = z
    /\ UNCHANGED <<now, trackerVars, idleVars, prompts, categoryPicks, notesInputs,
                   saves, dbLoaded, csvVars, moreVars, lateVars>>

\* A caller invokes saveSession(session).
DbSaveSession ==
    /\ pc = <<>>
    /\ Len(saves) < MaxSaves
    /\ \E session \in StoreSessions : \E t \in Readings :
          /\ now' = t
          /\ saveSession(session, t)
          /\ saves' = Append(saves, session)
    /\ UNCHANGED <<editor, currentSession, sessions, lastActiveFile, timer,
                   activeTimers, webhookUrl, outbox, created, events, pc, call,
                   idleVars, prompts, categoryPicks, notesInputs, tzOffset, dbLoaded, csvVars, moreVars, lateVars>>

\* A caller invokes loadSessions() or loadSessions(startDate, endDate).
DbLoadSessions ==
    /\ pc = <<>>
    /\ \E range \in {Undefined} \cup {<<a, a>> : a \in Times} \cup {<<a, TimeOf(MaxTick)>> : a \in Times} :
          dbLoaded' = <<loadSessions(files, range)>>
    /\ UNCHANGED <<now, trackerVars, idleVars, prompts, categoryPicks, notesInputs,
                   tzOffset, saves, csvVars, moreVars, lateVars>>

NextStore ==
    \/ DbSaveSession
    \/ DbLoadSessions

SpecStore == InitPrompt /\ [][NextStore]_vars

\* The same on a machine in any time zone.
ZoneSaveSession == DbSaveSession /\ Len(saves) < MaxZoneSaves

NextZone ==
    \/ SetTimezone
    \/ ZoneSaveSession
    \/ DbLoadSessions

SpecZone == InitPrompt /\ [][NextZone]_vars

(***************************************************************************)
(* The CSV text of a day file.  A text is a sequence of characters; "a",   *)
(* "x" and the words of the header stand for runs of other characters.  A  *)
(* Date is <<ms>>, or <<>> for Invalid Date; a number is <<n>>, or <<>>    *)
(* for NaN.                                                                *)
(***************************************************************************)
Comma == ","
Quote == "\""
LF == "\n"
CR == "\r"
Alphabet == {"a", Comma, Quote, LF, CR}
Whitespace == {" ", LF, CR}
Digits == <<"0", "1", "2", "3", "4", "5", "6", "7", "8", "9">>

\* String(n) of a non-negative integer.
RECURSIVE NumberText(_)
NumberText(n) ==
    IF n < 10 THEN <<Digits[n + 1]>>
    ELSE Append(NumberText(n \div 10), Digits[(n % 10) + 1])

IsDigits(text) ==
    text # <<>> /\ \A i \in 1..Len(text) : \E k \in 1..Len(Digits) : Digits[k] = text[i]

RECURSIVE ValueOfDigits(_)
ValueOfDigits(text) ==
    IF text = <<>> THEN 0
    ELSE ValueOfDigits(SubSeq(text, 1, Len(text) - 1)) * 10
            + (CHOOSE k \in 0..9 : Digits[k + 1] = text[Len(text)])

\* date.toISOString(): "T" and the digits stand for YYYY-MM-DDTHH:mm:ss.sssZ.
IsoText(date) == <<"T">> \o NumberText(date[1])

\* new Date(text), for a text that is an ISO string or holds no digit.
NewDate(text) ==
    IF Len(text) >= 2 /\ text[1] = "T" /\ IsDigits(Tail(text))
    THEN <<ValueOfDigits(Tail(text))>>
    ELSE <<>>

\* line.trim() === ""
IsBlank(text) == \A i \in 1..Len(text) : text[i] \in Whitespace

NotBlank(text) == ~IsBlank(text)

\* Number(text), for a text of digits, a blank text or a text with no digit.
NumberOf(text) ==
    IF IsBlank(text) THEN <<0>>
    ELSE IF IsDigits(text) THEN <<ValueOfDigits(text)>> ELSE <<>>

\* stringValue.replace(/"/g, '""')
RECURSIVE DoubleQuotes(_)
DoubleQuotes(text) ==
    IF text = <<>> THEN <<>>
    ELSE (IF Head(text) = Quote THEN <<Quote, Quote>> ELSE <<Head(text)>>)
            \o DoubleQuotes(Tail(text))

\* escapeCSV(value): value is <<>> (undefined) or <<text>>.
escapeCSV(value) ==
    IF value = Undefined THEN <<>>
    ELSE IF \E i \in 1..Len(value[1]) : value[1][i] \in {Comma, Quote, LF}
         THEN <<Quote>> \o DoubleQuotes(value[1]) \o <<Quote>>
         ELSE value[1]

\* cells.join(sep)
RECURSIVE Join(_, _)
Join(cells, sep) ==
    IF cells = <<>> THEN <<>>
    ELSE IF Len(cells) = 1 THEN cells[1]
         ELSE cells[1] \o <<sep>> \o Join(Tail(cells), sep)

CSV_HEADER ==
    Join(<< <<"id">>, <<"fileName">>, <<"filePath">>, <<"project">>, <<"startTime">>,
            <<"endTime">>, <<"duration">>, <<"category">>, <<"notes">> >>, Comma)

\* saveSessionsToFile: the line of one session.
SessionLine(session) ==
    Join(<< session.id, escapeCSV(<<session.fileName>>), escapeCSV(<<session.filePath>>),
            escapeCSV(<<session.project>>), IsoText(session.startTime),
            IF session.endTime = Undefined THEN <<>> ELSE IsoText(session.endTime[1]),
            NumberText(session.duration[1]), escapeCSV(session.category),
            escapeCSV(session.notes) >>, Comma)

\* saveSessionsToFile: fileContent, the header and one line for each session.
RECURSIVE SessionLines(_)
SessionLines(list) ==
    IF list = <<>> THEN <<>>
    ELSE SessionLine(Head(list)) \o <<LF>> \o SessionLines(Tail(list))

FileContent(list) == CSV_HEADER \o <<LF>> \o SessionLines(list)

\* fileContent.split(/\r?\n/): the lines after text, current being the line begun.
RECURSIVE SplitLines(_, _)
SplitLines(text, current) ==
    IF text = <<>> THEN <<current>>
    ELSE IF text[1] = LF
         THEN <<current>> \o SplitLines(Tail(text), <<>>)
         ELSE IF text[1] = CR /\ Len(text) >= 2 /\ text[2] = LF
              THEN <<current>> \o SplitLines(SubSeq(text, 3, Len(text)), <<>>)
              ELSE SplitLines(Tail(text), Append(current, text[1]))

\* parseCSVLine, the loop from character i on (i counts from 1).
RECURSIVE parseCSVLineFrom(_, _, _, _, _)
parseCSVLineFrom(line, i, inQuotes, currentField, result) ==
    IF i > Len(line) THEN Append(result, currentField)
    ELSE IF line[i] = Quote
         THEN IF inQuotes /\ i + 1 <= Len(line) /\ line[i + 1] = Quote
              THEN parseCSVLineFrom(line, i + 2, inQuotes, Append(currentField, Quote), result)
              ELSE parseCSVLineFrom(line, i + 1, ~inQuotes, currentField, result)
         ELSE IF line[i] = Comma /\ ~inQuotes
              THEN parseCSVLineFrom(line, i + 1, inQuotes, <<>>, Append(result, currentField))
              ELSE parseCSVLineFrom(line, i + 1, inQuotes, Append(currentField, line[i]), result)

parseCSVLine(line) == parseCSVLineFrom(line, 1, FALSE, <<>>, <<>>)

\* String.prototype.substring(start, end), indices from 0: the arguments are
\* swapped when start > end.
substring(text, start, end) ==
    IF start <= end THEN SubSeq(text, start + 1, end) ELSE SubSeq(text, end + 1, start)

\* text.replace(/""/g, '"')
RECURSIVE UndoubleQuotes(_)
UndoubleQuotes(text) ==
    IF text = <<>> THEN <<>>
    ELSE IF Len(text) >= 2 /\ text[1] = Quote /\ text[2] = Quote
         THEN <<Quote>> \o UndoubleQuotes(SubSeq(text, 3, Len(text)))
         ELSE <<Head(text)>> \o UndoubleQuotes(Tail(text))

\* parseCSVValue(value)
parseCSVValue(value) ==
    IF value = <<>> THEN <<>>
    ELSE IF Head(value) = Quote /\ value[Len(value)] = Quote
         THEN UndoubleQuotes(substring(value, 1, Len(value) - 1))
         ELSE value

\* values[k - 1]: undefined past the end of the array.
Cell(values, k) == IF k <= Len(values) THEN <<values[k]>> ELSE Undefined

\* loadSessionsFromFile: the session made of one line that has four cells or more.
SessionOfLine(line) ==
    LET values == parseCSVLine(line)
    IN  [ id |-> values[1],
          fileName |-> parseCSVValue(values[2]),
          filePath |-> parseCSVValue(values[3]),
          project |-> parseCSVValue(values[4]),
          startTime |-> IF Cell(values, 5) = Undefined THEN <<>> ELSE NewDate(values[5]),
          endTime |-> IF Cell(values, 6) \in {Undefined, <<<<>>>>} THEN Undefined
                      ELSE <<NewDate(values[6])>>,
          duration |-> IF Cell(values, 7) = Undefined THEN <<>> ELSE NumberOf(values[7]),
          category |-> IF Cell(values, 8) \in {Undefined, <<<<>>>>} THEN Undefined
                       ELSE <<parseCSVValue(values[8])>>,
          notes |-> IF Cell(values, 9) \in {Undefined, <<<<>>>>} THEN Undefined
                    ELSE <<parseCSVValue(values[9])>> ]

\* loadSessionsFromFile, the lines read: the header is dropped, then the blank lines.
DataLines(content) == SelectSeq(Tail(SplitLines(content, <<>>)), NotBlank)

\* loadSessionsFromFile(filePath) for the text of the file, <<>> when the file
\* does not exist.  parseCSVValue(undefined) throws a TypeError for a line of
\* fewer than four cells; the catch block returns [].
loadSessionsFromText(file) ==
    IF file = Undefined THEN <<>>
    ELSE IF \E i \in 1..Len(DataLines(file[1])) : Len(parseCSVLine(DataLines(file[1])[i])) < 4
         THEN <<>>
         ELSE [i \in 1..Len(DataLines(file[1])) |-> SessionOfLine(DataLines(file[1])[i])]

\* The texts of up to n characters.
TextsUpTo(n) == UNION {[1..k -> Alphabet] : k \in 0..n}

\* A completed session with the given id and plain values.
PlainSession(n) ==
    [ id |-> NumberText(n), fileName |-> <<"a">>, filePath |-> <<"a">>, project |-> <<"a">>,
      startTime |-> <<0>>, endTime |-> << <<MsPerSecond>> >>, duration |-> <<1>>,
      category |-> Undefined, notes |-> Undefined ]

\* The sessions written: any fileName and notes of MaxLen characters together.
CsvSessions ==
    { [PlainSession(1) EXCEPT !.fileName = f, !.notes = n] :
        <<f, n>> \in { <<f, n>> \in TextsUpTo(MaxLen) \X ({Undefined} \cup {<<t>> : t \in TextsUpTo(MaxLen)}) :
                         Len(f) + (IF n = Undefined THEN 0 ELSE Len(n[1])) <= MaxLen } }

\* The lines an edited file can hold: two well-formed ones, a line of one
\* cell, a line of four cells, a line of nine cells whose startTime is no date.
RawLines ==
    { SessionLine(PlainSession(1)), SessionLine(PlainSession(2)),
      <<"x">>,
      Join(<< <<"3">>, <<"x">>, <<"x">>, <<"x">> >>, Comma),
      Join(<< <<"4">>, <<"x">>, <<"x">>, <<"x">>, <<"x">>, <<>>, <<"1">>, <<>>, <<>> >>, Comma) }

RECURSIVE LinesText(_)
LinesText(lines) ==
    IF lines = <<>> THEN <<>> ELSE Head(lines) \o <<LF>> \o LinesText(Tail(lines))

\* saveSessionsToFile writes the day file of one session, a new file.
CsvWrite ==
    /\ pc = <<>>
    /\ csvFile = Undefined
    /\ \E session \in CsvSessions :
          /\ csvSession' = <<session>>
          /\ csvFile' = <<FileContent(<<session>>)>>
    /\ csvLoaded' = Undefined
    /\ UNCHANGED <<now, trackerVars, idleVars, prompts, categoryPicks, notesInputs,
                   tzOffset, saves, dbLoaded, moreVars, lateVars, csvBefore, csvSaved>>

\* A day file written outside the extension is found in the directory.
CsvEdit ==
    /\ pc = <<>>
    /\ csvFile = Undefined
    /\ \E lines \in UNION {[1..k -> RawLines] : k \in 1..MaxLines} :
          csvFile' = <<CSV_HEADER \o <<LF>> \o LinesText(lines)>>
    /\ csvSession' = Undefined
    /\ csvLoaded' = Undefined
    /\ UNCHANGED <<now, trackerVars, idleVars, prompts, categoryPicks, notesInputs,
                   tzOffset, saves, dbLoaded, moreVars, lateVars, csvBefore, csvSaved>>

\* loadSessionsFromFile reads the day file.
CsvRead ==
    /\ pc = <<>>
    /\ csvLoaded' = <<loadSessionsFromText(csvFile)>>
    /\ UNCHANGED <<now, trackerVars, idleVars, prompts, categoryPicks, notesInputs,
                   tzOffset, saves, dbLoaded, csvSession, csvFile, csvBefore, csvSaved, moreVars, lateVars>>

\* session.startTime.toISOString() or session.endTime.toISOString() throws
\* a RangeError: the Date is an Invalid Date.
throwsOnWrite(session) == session.startTime = <<>> \/ session.endTime = <<<<>>>>

\* saveSession: the day's sessions after the replace-or-push, for loaded sessions.
csvDailyAfterSave(daily, session) ==
    IF \E i \in 1..Len(daily) : daily[i].id = session.id
    THEN [i \in 1..Len(daily) |->
             IF i = (CHOOSE k \in 1..Len(daily) :
                        daily[k].id = session.id /\ \A j \in 1..(k - 1) : daily[j].id # session.id)
             THEN session ELSE daily[i]]
    ELSE Append(daily, session)

\* saveSession(session) on the text of the day file: the file is read, the
\* session replaces the record with its id or is added, and the whole file is
\* written again; when building the content throws, the catch of
\* saveSessionsToFile leaves the file as the backup has it.
csvSaveSession(file, session) ==
    IF \E i \in 1..Len(csvDailyAfterSave(loadSessionsFromText(file), session)) :
          throwsOnWrite(csvDailyAfterSave(loadSessionsFromText(file), session)[i])
    THEN file
    ELSE <<FileContent(csvDailyAfterSave(loadSessionsFromText(file), session))>>

\* A caller invokes saveSession with a new session of the day of the file.
CsvSaveSession ==
    /\ pc = <<>>
    /\ csvFile # Undefined /\ csvSaved = Undefined
    /\ csvBefore' = <<loadSessionsFromText(csvFile)>>
    /\ csvSaved' = <<PlainSession(2)>>
    /\ csvFile' = csvSaveSession(csvFile, PlainSession(2))
    /\ csvLoaded' = Undefined
    /\ UNCHANGED <<now, trackerVars, idleVars, prompts, categoryPicks, notesInputs,
                   tzOffset, saves, dbLoaded, csvSession, moreVars, lateVars>>

NextCsv ==
    \/ CsvWrite
    \/ CsvEdit
    \/ CsvRead

SpecCsv == InitPrompt /\ [][NextCsv]_vars

NextCsvSave ==
    \/ CsvWrite
    \/ CsvEdit
    \/ CsvSaveSession
    \/ CsvRead

SpecCsvSave == InitPrompt /\ [][NextCsvSave]_vars

(***************************************************************************)
(* The tracker together with the idle monitor and its prompt.              *)
(***************************************************************************)
\* The runs of this specification: no webhook is configured, and the number
\* of sessions and of startMonitoring calls is bounded by MaxPromptStarts.
PromptCreateSession == CreateSession /\ Len(created') <= MaxPromptStarts
PromptStartMonitoring == StartMonitoring /\ idleHandles' <= MaxPromptStarts

NextPrompt ==
    \/ SetEditor
    \/ StartTracking
    \/ StartTrackingNested
    \/ StopTracking
    \/ ClearTimer
    \/ HandleEditorChange
    \/ EndCurrentSession
    \/ PushSession
    \/ SaveSession
    \/ SendSessionEvent
    \/ ClearCurrent
    \/ PromptCreateSession
    \/ PromptStartMonitoring
    \/ CheckIdleState
    \/ PromptSelection

SpecPrompt == InitPrompt /\ [][NextPrompt]_vars

(***************************************************************************)
(* DatabaseService.saveSession file operation by file operation, with a    *)
(* write that can fail and a process that can die.                         *)
(***************************************************************************)
\* fs.writeFileSync / fs.copyFileSync: the file of this day gets these rows.
WriteFile(fs, day, rows) ==
    [d \in DOMAIN fs \cup {day} |-> IF d = day THEN rows ELSE fs[d]]

\* fs.unlinkSync: the file of this day is removed.
Unlink(fs, day) == [d \in DOMAIN fs \ {day} |-> fs[d]]

\* What fs.writeFileSync leaves in the file when it fails or is cut short: the
\* old content, or a proper prefix of the lines it was writing.
PartialWrites(old, new) == {old} \cup {SubSeq(new, 1, k) : k \in 0..(Len(new) - 1)}

\* Variant: nothing is restored.
restoreFromBackup_Skip(fs, bk, day) == fs

\* saveSessionsToFile, catch: if (fs.existsSync(backupPath))
\* fs.copyFileSync(backupPath, filePath).
restoreFromBackup(fs, bk, day) ==
    IF day \in DOMAIN bk THEN WriteFile(fs, day, bk[day]) ELSE fs

\* The sessions handed to saveSession in these runs: the ones without notes.
FaultSessions == {s \in StoreSessions : s.notes = Undefined}

\* The history record of a saveSession call.
SaveLogOf(day, failed, ended) ==
    <<[day |-> day, before |-> loadSessionsFromFile(files, day),
       cache |-> dbSessions, failed |-> failed, returned |-> ended,
       escaped |-> FALSE]>>

\* saveSession(session) when the day file does not exist and cannot be
\* created: ensureFileExists shows its message and throws, the catch of
\* saveSession shows the second message.
FaultCreateFails ==
    /\ pc = <<>> /\ ~down /\ saving = Undefined
    /\ Len(saves) < MaxFaultSaves
    /\ \E session \in FaultSessions :
          LET day == getFilePathForDay(session.startTime)
          IN  /\ day \notin DOMAIN files
              /\ files' \in {files, WriteFile(files, day, <<>>)}
              /\ saveLog' = SaveLogOf(day, TRUE, TRUE)
              /\ saves' = Append(saves, session)
    /\ messages' = <<"Failed to create CSV file", "Failed to save session">>
    /\ UNCHANGED <<now, editor, currentSession, sessions, lastActiveFile, timer,
                   activeTimers, dbSessions, webhookUrl, outbox, created, events,
                   pc, call, idleVars, prompts, categoryPicks, notesInputs,
                   tzOffset, dbLoaded, csvVars, activationVars, lateVars, statsVars, migrVars, hookVars, saving, backups, down, durable>>

\* saveSession(session) up to the backup copy in saveSessionsToFile: the day
\* file is created if missing and read, the session replaces the record with
\* its id or is added, the cache is refreshed when the date is today, and the
\* day file is copied to its .backup file.
FaultSaveBegin ==
    /\ pc = <<>> /\ ~down /\ saving = Undefined
    /\ Len(saves) < MaxFaultSaves
    /\ \E session \in FaultSessions : \E t \in Readings :
          LET day == getFilePathForDay(session.startTime)
              dailySessions == dailyAfterSave(files, session)
          IN  /\ now' = t
              /\ files' = ensureFileExists(files, day)
              /\ dbSessions' = IF formatDateToString(session.startTime) = formatDateToString(t)
                               THEN dailySessions ELSE dbSessions
              /\ backups' = WriteFile(backups, day, ensureFileExists(files, day)[day])
              /\ saving' = <<[day |-> day, dailySessions |-> dailySessions, step |-> "write"]>>
              /\ saveLog' = SaveLogOf(day, FALSE, FALSE)
              /\ saves' = Append(saves, session)
    /\ messages' = <<>>
    /\ UNCHANGED <<editor, currentSession, sessions, lastActiveFile, timer,
                   activeTimers, webhookUrl, outbox, created, events,
                   pc, call, idleVars, prompts, categoryPicks, notesInputs,
                   tzOffset, dbLoaded, csvVars, activationVars, lateVars, statsVars, migrVars, hookVars, down, durable>>

\* saveSessionsToFile: fs.writeFileSync(filePath, fileContent) succeeds.
FaultWriteOk ==
    /\ ~down /\ saving # Undefined /\ saving[1].step = "write"
    /\ files' = saveSessionsToFile(files, saving[1].dailySessions, saving[1].day)
    /\ saving' = <<[saving[1] EXCEPT !.step = "unlink"]>>
    /\ UNCHANGED <<now, editor, currentSession, sessions, lastActiveFile, timer,
                   activeTimers, dbSessions, webhookUrl, outbox, created, events,
                   pc, call, idleVars, prompts, categoryPicks, notesInputs,
                   tzOffset, saves, dbLoaded, csvVars, activationVars, lateVars, statsVars, migrVars, hookVars, backups, messages,
                   saveLog, down, durable>>

\* saveSessionsToFile: fs.writeFileSync throws; the catch shows the error.
FaultWriteFails ==
    /\ ~down /\ saving # Undefined /\ saving[1].step = "write"
    /\ \E content \in PartialWrites(files[saving[1].day],
                         saveSessionsToFile(files, saving[1].dailySessions, saving[1].day)[saving[1].day]) :
          files' = WriteFile(files, saving[1].day, content)
    /\ messages' = Append(messages, "Failed to save sessions")
    /\ saveLog' = <<[saveLog[1] EXCEPT !.failed = TRUE]>>
    /\ saving' = <<[saving[1] EXCEPT !.step = "restore"]>>
    /\ UNCHANGED <<now, editor, currentSession, sessions, lastActiveFile, timer,
                   activeTimers, dbSessions, webhookUrl, outbox, created, events,
                   pc, call, idleVars, prompts, categoryPicks, notesInputs,
                   tzOffset, saves, dbLoaded, csvVars, activationVars, lateVars, statsVars, migrVars, hookVars, backups, down, durable>>

\* saveSessionsToFile: if (fs.existsSync(backupPath)) fs.unlinkSync(backupPath);
\* saveSessionsToFile and saveSession return.
FaultRemoveBackup ==
    /\ ~down /\ saving # Undefined /\ saving[1].step = "unlink"
    /\ backups' = Unlink(backups, saving[1].day)
    /\ saving' = Undefined
    /\ saveLog' = <<[saveLog[1] EXCEPT !.returned = TRUE]>>
    /\ UNCHANGED <<now, editor, currentSession, sessions, lastActiveFile, timer,
                   activeTimers, files, dbSessions, webhookUrl, outbox, created,
                   events, pc, call, idleVars, prompts, categoryPicks, notesInputs,
                   tzOffset, saves, dbLoaded, csvVars, activationVars, lateVars, statsVars, migrVars, hookVars, messages, down, durable>>

\* saveSessionsToFile, catch: the day file is restored from its backup;
\* saveSessionsToFile and saveSession return.
FaultRestore ==
    /\ ~down /\ saving # Undefined /\ saving[1].step = "restore"
    /\ files' = restoreFromBackup(files, backups, saving[1].day)
    /\ messages' = IF saving[1].day \in DOMAIN backups
                   THEN Append(messages, "Restored time tracking data from backup.")
                   ELSE messages
    /\ saving' = Undefined
    /\ saveLog' = <<[saveLog[1] EXCEPT !.returned = TRUE]>>
    /\ UNCHANGED <<now, editor, currentSession, sessions, lastActiveFile, timer,
                   activeTimers, dbSessions, webhookUrl, outbox, created, events,
                   pc, call, idleVars, prompts, categoryPicks, notesInputs,
                   tzOffset, saves, dbLoaded, csvVars, activationVars, lateVars, statsVars, migrVars, hookVars, backups, down, durable>>

\* The extension host dies inside saveSessionsToFile: after the backup copy,
\* inside writeFileSync, before the backup is removed, or before the restore.
\* What is on disk stays; a write that was running leaves a partial file.
Crash ==
    /\ ~down /\ saving # Undefined
    /\ IF saving[1].step = "write"
       THEN \E content \in PartialWrites(files[saving[1].day],
                             saveSessionsToFile(files, saving[1].dailySessions, saving[1].day)[saving[1].day]) :
                files' = WriteFile(files, saving[1].day, content)
       ELSE files' = files
    /\ durable' = durable \cup {<<saveLog[1].day, saveLog[1].before[i].id>> :
                                    i \in 1..Len(saveLog[1].before)}
    /\ down' = TRUE
    /\ saving' = Undefined
    /\ dbSessions' = <<>>
    /\ UNCHANGED <<now, editor, currentSession, sessions, lastActiveFile, timer,
                   activeTimers, webhookUrl, outbox, created, events,
                   pc, call, idleVars, prompts, categoryPicks, notesInputs,
                   tzOffset, saves, dbLoaded, csvVars, activationVars, lateVars, statsVars, migrVars, hookVars, backups, messages, saveLog>>

\* The extension is activated again: new DatabaseService() loads the day file
\* of today into the cache.
Restart ==
    /\ down
    /\ down' = FALSE
    /\ \E t \in Readings :
          /\ now' = t
          /\ dbSessions' = loadSessionsFromFile(files, getFilePathForDay(t))
    /\ messages' = <<>>
    /\ UNCHANGED <<editor, currentSession, sessions, lastActiveFile, timer,
                   activeTimers, files, webhookUrl, outbox, created, events,
                   pc, call, idleVars, prompts, categoryPicks, notesInputs,
                   tzOffset, saves, dbLoaded, csvVars, activationVars, lateVars, statsVars, migrVars, hookVars, saving, backups, saveLog, durable>>

NextFault ==
    \/ FaultCreateFails
    \/ FaultSaveBegin
    \/ FaultWriteOk
    \/ FaultWriteFails
    \/ FaultRemoveBackup
    \/ FaultRestore
    \/ Crash
    \/ Restart

SpecFault == InitPrompt /\ [][NextFault]_vars

(***************************************************************************)
(* DatabaseService.getCategoryStats over stored sessions with categories   *)
(* and durations.                                                          *)
(***************************************************************************)
\* The durations of the completed sessions, in ms.
Durations == {1000, 2000}

\* The sessions handed to saveSession in these runs.
StatsSessions ==
    [ id : {NumberToString(1), NumberToString(2)}, fileName : {"a.ts"},
      filePath : {<<"proj", "a.ts">>}, project : {"proj"}, startTime : Times,
      endTime : {<<TimeOf(MaxTick)>>}, duration : Durations,
      category : {Undefined} \cup {<<c>> : c \in Categories}, notes : {Undefined} ]

\* session.category || "Uncategorized"
categoryOf(session) ==
    IF session.category = Undefined \/ session.category[1] = ""
    THEN "Uncategorized" ELSE session.category[1]

\* categoryMap.get(category) || 0; the Map is the sequence of its entries in
\* insertion order.
mapGet(categoryMap, category) ==
    IF \E i \in 1..Len(categoryMap) : categoryMap[i].category = category
    THEN (CHOOSE e \in {categoryMap[i] : i \in 1..Len(categoryMap)} :
              e.category = category).duration
    ELSE 0

\* categoryMap.set(category, value)
mapSet(categoryMap, category, value) ==
    IF \E i \in 1..Len(categoryMap) : categoryMap[i].category = category
    THEN [i \in 1..Len(categoryMap) |->
             IF categoryMap[i].category = category
             THEN [category |-> category, duration |-> value] ELSE categoryMap[i]]
    ELSE Append(categoryMap, [category |-> category, duration |-> value])

\* getCategoryStats, the loop over the loaded sessions.
RECURSIVE groupByCategory(_, _)
groupByCategory(list, categoryMap) ==
    IF list = <<>> THEN categoryMap
    ELSE groupByCategory(Tail(list),
             mapSet(categoryMap, categoryOf(Head(list)),
                    mapGet(categoryMap, categoryOf(Head(list))) + Head(list).duration))

\* DatabaseService.getCategoryStats(startDate?, endDate?)
getCategoryStats(fs, range) == groupByCategory(loadSessions(fs, range), <<>>)

\* The date ranges a caller passes: none, or startDate <= endDate.
StatsRanges ==
    {Undefined} \cup UNION {{<<a, b>> : b \in {t \in Times : t >= a}} : a \in Times}

\* A caller invokes saveSession(session).
StatsSaveSession ==
    /\ pc = <<>>
    /\ Len(saves) < MaxStatsSaves
    /\ \E session \in StatsSessions :
          /\ saveSession(session, now)
          /\ saves' = Append(saves, session)
    /\ categoryStats' = Undefined
    /\ statsRange' = Undefined
    /\ UNCHANGED <<now, editor, currentSession, sessions, lastActiveFile, timer,
                   activeTimers, webhookUrl, outbox, created, events, pc, call,
                   idleVars, prompts, categoryPicks, notesInputs, tzOffset,
                   dbLoaded, csvVars, activationVars, lateVars, faultVars, migrVars, hookVars>>

\* A caller invokes getCategoryStats() or getCategoryStats(startDate, endDate);
\* the result is looked at before the next call.
GetCategoryStats ==
    /\ pc = <<>>
    /\ categoryStats = Undefined
    /\ \E range \in StatsRanges :
          /\ categoryStats' = <<getCategoryStats(files, range)>>
          /\ statsRange' = <<range>>
    /\ UNCHANGED <<now, trackerVars, idleVars, prompts, categoryPicks, notesInputs,
                   tzOffset, saves, dbLoaded, csvVars, activationVars, lateVars, faultVars, migrVars, hookVars>>

NextStats ==
    \/ StatsSaveSession
    \/ GetCategoryStats

SpecStats == InitPrompt /\ [][NextStats]_vars

(***************************************************************************)
(* DatabaseService.migrateFromSingleFile: the single CSV file of the old   *)
(* storage format is split into day files.                                 *)
(***************************************************************************)
\* What the old file holds: one or two sessions with different ids.
LegacySessions ==
    {<<a>> : a \in FaultSessions} \cup
    UNION {{<<a, b>> : b \in {x \in FaultSessions : x.id # a.id}} : a \in FaultSessions}

\* new Date(dateKey): midnight UTC of the date.
NewDateOfKey(dateKey) == dateKey * MsPerDay

\* The keys of sessionsByDay in insertion order.
RECURSIVE dateKeys(_, _)
dateKeys(list, keys) ==
    IF list = <<>> THEN keys
    ELSE dateKeys(Tail(list),
             IF \E i \in 1..Len(keys) : keys[i] = formatDateToString(Head(list).startTime)
             THEN keys ELSE Append(keys, formatDateToString(Head(list).startTime)))

\* sessionsByDay.get(dateKey): the sessions of the date, in file order.
RECURSIVE sessionsOfDay(_, _)
sessionsOfDay(list, dateKey) ==
    IF list = <<>> THEN <<>>
    ELSE (IF formatDateToString(Head(list).startTime) = dateKey THEN <<Head(list)>> ELSE <<>>)
            \o sessionsOfDay(Tail(list), dateKey)

\* for (const [dateKey, sessions] of sessionsByDay.entries())
\*     this.saveSessionsToFile(sessions, this.getFilePathForDay(new Date(dateKey)))
RECURSIVE saveGroups(_, _, _)
saveGroups(fs, oldSessions, keys) ==
    IF keys = <<>> THEN fs
    ELSE saveGroups(saveSessionsToFile(fs, sessionsOfDay(oldSessions, Head(keys)),
                                       getFilePathForDay(NewDateOfKey(Head(keys)))),
                    oldSessions, Tail(keys))

\* The old file loaded by loadSessionsFromFile(oldFilePath).
oldSessionsOf(file) == [i \in 1..Len(file[1]) |-> ParseRow(file[1][i])]

\* The file written by the old version of the extension is in its place.
LegacyFileFound ==
    /\ pc = <<>>
    /\ legacyFile = Undefined /\ migrations = 0
    /\ \E list \in LegacySessions :
          legacyFile' = <<[i \in 1..Len(list) |-> Row(list[i])]>>
    /\ UNCHANGED <<now, trackerVars, idleVars, prompts, categoryPicks, notesInputs,
                   tzOffset, saves, dbLoaded, csvVars, activationVars, lateVars, faultVars, statsVars,
                   legacyBak, migrations, migrLog, hookVars>>

\* A caller invokes saveSession(session).
MigrSaveSession ==
    /\ pc = <<>>
    /\ Len(saves) < MaxMigrSaves
    /\ \E session \in FaultSessions :
          /\ saveSession(session, now)
          /\ saves' = Append(saves, session)
    /\ migrLog' = Undefined
    /\ UNCHANGED <<now, editor, currentSession, sessions, lastActiveFile, timer,
                   activeTimers, webhookUrl, outbox, created, events, pc, call,
                   idleVars, prompts, categoryPicks, notesInputs, tzOffset,
                   dbLoaded, csvVars, activationVars, lateVars, faultVars, statsVars,
                   legacyFile, legacyBak, migrations, hookVars>>

\* DatabaseService.migrateFromSingleFile(oldFilePath): false when the old file
\* does not exist; else its sessions are grouped by the date of startTime,
\* every group is written as the day file of its date, the old file is
\* copied to its .bak file and stays.
MigrateFromSingleFile ==
    /\ pc = <<>>
    /\ migrations < MaxMigrations
    /\ IF legacyFile = Undefined
       THEN /\ migrLog' = <<[before |-> files, file |-> legacyFile, result |-> FALSE,
                            run |-> migrations]>>
            /\ UNCHANGED <<files, legacyBak, migrations>>
       ELSE /\ files' = saveGroups(files, oldSessionsOf(legacyFile),
                                   dateKeys(oldSessionsOf(legacyFile), <<>>))
            /\ legacyBak' = legacyFile
            /\ migrations' = migrations + 1
            /\ migrLog' = <<[before |-> files, file |-> legacyFile, result |-> TRUE,
                            run |-> migrations + 1]>>
    /\ UNCHANGED <<now, editor, currentSession, sessions, lastActiveFile, timer,
                   activeTimers, dbSessions, webhookUrl, outbox, created, events,
                   pc, call, idleVars, prompts, categoryPicks, notesInputs,
                   tzOffset, saves, dbLoaded, csvVars, activationVars, lateVars, faultVars, statsVars,
                   legacyFile, hookVars>>

NextMigrate ==
    \/ LegacyFileFound
    \/ MigrSaveSession
    \/ MigrateFromSingleFile

SpecMigrate == InitPrompt /\ [][NextMigrate]_vars

(***************************************************************************)
(* The tracker with a webhook whose deliveries can fail.                   *)
(***************************************************************************)
\* How the request of fetch ends: a 2xx response, a rejected promise, or a
\* response with !response.ok.
HookOutcomes == {"ok", "network error", "not ok"}

\* Variant: the error is thrown on to the caller.
sendSessionEventCatch_Rethrow(outcome) ==
    [errors |-> 0, rejected |-> outcome # "ok"]

\* sendSessionEvent after await fetch(...): !response.ok throws, the catch
\* writes the error to the console and the promise resolves.
sendSessionEventCatch(outcome) ==
    [errors |-> IF outcome = "ok" THEN 0 ELSE 1, rejected |-> FALSE]

\* The request of the oldest pending event completes; the rest of
\* sendSessionEvent runs when no handler is running.
FetchCompletes ==
    /\ pc = <<>>
    /\ hookDone < Len(outbox)
    /\ \E outcome \in HookOutcomes :
          /\ hookErrors' = hookErrors + sendSessionEventCatch(outcome).errors
          /\ hookRejected' = (hookRejected \/ sendSessionEventCatch(outcome).rejected)
    /\ hookDone' = hookDone + 1
    /\ UNCHANGED <<now, trackerVars, idleVars, prompts, categoryPicks, notesInputs,
                   tzOffset, saves, dbLoaded, csvVars, activationVars, lateVars, faultVars, statsVars, migrVars>>

HookStartTracking == StartTracking /\ Len(created) < MaxHookStarts

NextHook ==
    \/ EditSetEditor
    \/ HookStartTracking
    \/ StopTracking
    \/ ClearTimer
    \/ EndCurrentSession
    \/ PushSession
    \/ SaveSession
    \/ SendSessionEvent
    \/ ClearCurrent
    \/ CreateSession
    \/ FetchCompletes

SpecHook == Init /\ [][NextHook]_vars

(***************************************************************************)
(* The tracker, the idle monitor and the idle prompt with the notification *)
(* reference that recordActivity dismisses.                                *)
(***************************************************************************)
\* The idle prompt is answered: "Stop Tracking" stops the tracker and clears
\* the notification reference, "Continue Tracking" clears it, any other item
\* is stored with setActiveNotification; a dismissed prompt changes nothing.
NotifiedPromptSelection ==
    /\ pc = <<>>
    /\ prompts > 0
    /\ prompts' = prompts - 1
    /\ \E selection \in Selections :
          /\ pc' = IF selection = <<"Stop Tracking">>
                   THEN <<"endCurrentSession", "clearTimer">> ELSE <<>>
          /\ activeNotification' =
                IF selection \in {<<"Stop Tracking">>, <<"Continue Tracking">>} THEN FALSE
                ELSE IF selection # Undefined THEN TRUE
                ELSE activeNotification
          /\ call' = [name |-> IF selection = <<"Stop Tracking">>
                               THEN "promptStop" ELSE "promptKeep",
                      prev |-> IF isTracking THEN currentOrdinal ELSE 0,
                      editor |-> editor]
    /\ UNCHANGED <<now, sessionVars, lastActivity, idleThreshold, idleDetected,
                   idleTimer, idleActiveTimers, idleHandles, idleListeners,
                   idleDisposed, autoDismissEnabled, idleFired, idleChecked,
                   returned, categoryPicks, notesInputs, tzOffset, saves,
                   dbLoaded, csvVars, moreVars, lateVars>>

NextDismiss ==
    \/ EditSetEditor
    \/ EditStartTracking
    \/ ClearTimer
    \/ EndCurrentSession
    \/ PushSession
    \/ SaveSession
    \/ SendSessionEvent
    \/ ClearCurrent
    \/ PromptCreateSession
    \/ PromptStartMonitoring
    \/ CheckIdleState
    \/ RecordActivity
    \/ UpdateAutoDismissFromConfig
    \/ NotifiedPromptSelection

SpecDismiss == InitPrompt /\ [][NextDismiss]_vars

(***************************************************************************)
(* The extension: the end of activate with auto-track, the delayed         *)
(* auto-start, the commands, and the configuration and workspace-folder    *)
(* handlers, together with the tracker and the idle monitor.               *)
(***************************************************************************)
\* The variables of the other services, which no handler of the extension writes.
serviceVars == <<categoryPicks, notesInputs, tzOffset, saves, dbLoaded, csvVars,
                 faultVars, statsVars, migrVars, hookVars, lateVars>>

monitorRest == <<lastActivity, idleThreshold, idleDetected, idleDisposed,
                 activeNotification, autoDismissEnabled, idleFired, idleChecked, returned>>

\* A handler that starts tracking is run while the sessions and the idle-check
\* intervals it creates stay within the bounds; the pending auto-start keeps
\* its share.
ExtRoom ==
    /\ Len(created) + (IF autoStartTimer THEN 1 ELSE 0) < MaxExtStarts
    /\ idleHandles < MaxExtMonitors

\* stopTracking() as called by a handler that goes on afterwards.
StopTrackingSteps == <<"endCurrentSession", "clearTimer">>

CallOf(name) == [name |-> name, prev |-> IF isTracking THEN currentOrdinal ELSE 0, editor |-> editor]

\* activate, from the reading of timeTracking.autoTrack on: with auto-track
\* the idle monitor is started, and with a workspace folder the auto-start is
\* scheduled.  The setting and the folders are what activation finds.
Activate ==
    /\ pc = <<>>
    /\ ~activationDone
    /\ \E a \in BOOLEAN : \E f \in 0..MaxFolders :
          /\ autoTrack' = a
          /\ folders' = f
          /\ autoStartTimer' = (a /\ f > 0)
          /\ pc' = IF a THEN <<"startMonitoring">> ELSE <<>>
    /\ activationDone' = TRUE
    /\ call' = CallOf("activate")
    /\ UNCHANGED <<now, sessionVars, idleVars, prompts, serviceVars, contextFlag,
                   stopRequested, autoStartLog>>

\* The callback of the delayed auto-start: startTracking(), startTimer(),
\* setContext(true).
autoStartBody == startTrackingBody(<<"setContextTrue">>)

\* The setTimeout of activate fires.
AutoStart ==
    /\ pc = <<>>
    /\ autoStartTimer
    /\ autoStartTimer' = FALSE
    /\ autoStartBody
    /\ autoStartLog' = <<[enabled |-> autoTrack, stopped |-> stopRequested,
                          opened |-> editor # NoEditor]>>
    /\ call' = CallOf("autoStart")
    /\ UNCHANGED <<now, sessionVars, idleVars, prompts, serviceVars, autoTrack,
                   folders, activationDone, contextFlag, stopRequested>>

\* onDidChangeConfiguration for timeTracking.autoTrack: the setting has been
\* switched.
ChangeAutoTrack ==
    /\ pc = <<>>
    /\ activationDone
    /\ autoTrack' = ~autoTrack
    /\ IF autoTrack' /\ ~isTracking /\ folders > 0
       THEN /\ ExtRoom
            /\ startTrackingBody(<<"startMonitoring", "setContextTrue">>)
       ELSE IF ~autoTrack' /\ isTracking
            THEN pc' = StopTrackingSteps \o <<"stopMonitoring", "setContextFalse">>
            ELSE pc' = <<>>
    /\ call' = CallOf("changeAutoTrack")
    /\ UNCHANGED <<now, sessionVars, idleVars, prompts, serviceVars, folders,
                   activationDone, autoStartTimer, contextFlag, stopRequested,
                   autoStartLog>>

\* onDidChangeWorkspaceFolders: a folder has been added or the last one removed.
ChangeWorkspaceFolders ==
    /\ pc = <<>>
    /\ activationDone
    /\ \E f \in 0..MaxFolders :
          /\ f # folders
          /\ folders' = f
          /\ IF f > folders /\ autoTrack /\ ~isTracking
             THEN /\ ExtRoom
                  /\ startTrackingBody(<<"startMonitoring", "setContextTrue">>)
                  /\ call' = CallOf("foldersAdded")
             ELSE /\ pc' = IF f = 0 /\ isTracking
                           THEN StopTrackingSteps \o <<"setContextFalse">> ELSE <<>>
                  /\ call' = CallOf("foldersChanged")
    /\ UNCHANGED <<now, sessionVars, idleVars, prompts, serviceVars, autoTrack,
                   activationDone, autoStartTimer, contextFlag, stopRequested,
                   autoStartLog>>

\* time-tracking.startTracking: startTracking(), startTimer(),
\* startMonitoring(), setContext(true).
startCommandBody == startTrackingBody(<<"startMonitoring", "setContextTrue">>)

\* time-tracking.stopTracking: stopTracking(), stopTimer(), stopMonitoring(),
\* setContext(false).
stopCommandBody == pc' = StopTrackingSteps \o <<"stopMonitoring", "setContextFalse">>

StartCommand ==
    /\ pc = <<>>
    /\ activationDone
    /\ ExtRoom
    /\ startCommandBody
    /\ call' = CallOf("startCommand")
    /\ UNCHANGED <<now, sessionVars, idleVars, prompts, serviceVars, activationVars>>

StopCommand ==
    /\ pc = <<>>
    /\ activationDone
    /\ stopCommandBody
    /\ stopRequested' = TRUE
    /\ call' = CallOf("stopCommand")
    /\ UNCHANGED <<now, sessionVars, idleVars, prompts, serviceVars, autoTrack,
                   folders, activationDone, autoStartTimer, contextFlag, autoStartLog>>

\* time-tracking.toggleTracking: the stop branch when a session is open,
\* else the start branch.
ToggleCommand ==
    /\ pc = <<>>
    /\ activationDone
    /\ IF isTracking
       THEN /\ stopCommandBody
            /\ stopRequested' = TRUE
       ELSE /\ ExtRoom
            /\ startCommandBody
            /\ stopRequested' = stopRequested
    /\ call' = CallOf("toggleCommand")
    /\ UNCHANGED <<now, sessionVars, idleVars, prompts, serviceVars, autoTrack,
                   folders, activationDone, autoStartTimer, contextFlag, autoStartLog>>

\* idleDetector.startMonitoring() as a step of a handler.
StartMonitoringStep ==
    /\ pc # <<>> /\ Head(pc) = "startMonitoring"
    /\ idleHandles' = idleHandles + 1
    /\ idleListeners' = idleListeners + 1
    /\ idleTimer' = idleHandles + 1
    /\ idleActiveTimers' = idleActiveTimers \cup {idleHandles + 1}
    /\ pc' = Tail(pc)
    /\ UNCHANGED <<now, sessionVars, call, monitorRest, extVars>>

\* idleDetector.stopMonitoring() as a step of a handler.
StopMonitoringStep ==
    /\ pc # <<>> /\ Head(pc) = "stopMonitoring"
    /\ stopMonitoring
    /\ pc' = Tail(pc)
    /\ UNCHANGED <<now, sessionVars, call, monitorRest, idleHandles, idleListeners,
                   extVars>>

\* vscode.commands.executeCommand("setContext", "timeTracking.isTracking", value).
SetContext ==
    /\ pc # <<>> /\ Head(pc) \in {"setContextTrue", "setContextFalse"}
    /\ contextFlag' = (Head(pc) = "setContextTrue")
    /\ pc' = Tail(pc)
    /\ UNCHANGED <<now, sessionVars, call, idleVars, prompts, serviceVars, autoTrack,
                   folders, activationDone, autoStartTimer, stopRequested, autoStartLog>>

\* The runs of this specification: one file is opened and closed, and the
\* clock returns the same reading throughout.
ExtSetEditor == SetEditor /\ editor' \in {NoEditor, <<"proj", "a.ts">>}
ExtEndCurrentSession == EndCurrentSession /\ now' = now
ExtCreateSession == CreateSession /\ now' = now

NextExt ==
    \/ ExtSetEditor
    \/ Activate
    \/ AutoStart
    \/ ChangeAutoTrack
    \/ ChangeWorkspaceFolders
    \/ StartCommand
    \/ StopCommand
    \/ ToggleCommand
    \/ StartMonitoringStep
    \/ StopMonitoringStep
    \/ SetContext
    \/ ExtEndCurrentSession
    \/ PushSession
    \/ SaveSession
    \/ SendSessionEvent
    \/ ClearCurrent
    \/ ClearTimer
    \/ ExtCreateSession

SpecExt == InitPrompt /\ [][NextExt]_vars

\* Every handler runs to its end, and the timer of the auto-start fires: its
\* callback is run between two handlers, however many commands follow.
SpecExtLive ==
    /\ SpecExt
    /\ SF_vars(AutoStart)
    /\ WF_vars(StartMonitoringStep)
    /\ WF_vars(StopMonitoringStep)
    /\ WF_vars(SetContext)
    /\ WF_vars(ExtEndCurrentSession)
    /\ WF_vars(PushSession)
    /\ WF_vars(SaveSession)
    /\ WF_vars(SendSessionEvent)
    /\ WF_vars(ClearCurrent)
    /\ WF_vars(ClearTimer)
    /\ WF_vars(ExtCreateSession)

(***************************************************************************)
(* An answer that arrives late: the quick pick, the input box and the idle *)
(* prompt are answered after the tracker has moved on to another session.  *)
(***************************************************************************)
\* The runs of these specifications: up to MaxLateStarts sessions of one file.
LateStartTracking == StartTracking /\ Len(created) < MaxLateStarts

NextLateEdit ==
    \/ ExtSetEditor
    \/ LateStartTracking
    \/ StopTracking
    \/ ClearTimer
    \/ ExtEndCurrentSession
    \/ PushSession
    \/ SaveSession
    \/ SendSessionEvent
    \/ ClearCurrent
    \/ ExtCreateSession
    \/ AddCategoryCommand
    \/ PickCategory
    \/ AddNotesCommand
    \/ EnterNotes

SpecLateEdit == InitPrompt /\ [][NextLateEdit]_vars

NextLatePrompt ==
    \/ ExtSetEditor
    \/ LateStartTracking
    \/ StopTracking
    \/ ClearTimer
    \/ EndCurrentSession
    \/ PushSession
    \/ SaveSession
    \/ SendSessionEvent
    \/ ClearCurrent
    \/ CreateSession
    \/ PromptStartMonitoring
    \/ CheckIdleState
    \/ PromptSelection

SpecLatePrompt == InitPrompt /\ [][NextLatePrompt]_vars

(***************************************************************************)
(* Properties.                                                             *)
(***************************************************************************)
\* The place of event <<kind, n>> in the history, 0 when it has not happened.
PosOf(kind, n) ==
    IF \E i \in 1..Len(events) : events[i] = <<kind, n>>
    THEN CHOOSE i \in 1..Len(events) : events[i] = <<kind, n>>
    ELSE 0

\* The created sessions that have not been closed.
OpenSessions == {n \in 1..Len(created) : PosOf("closed", n) = 0}

\* The sessions read back from every day file.
StoredSessions ==
    UNION {{ParseRow(files[d][i]) : i \in 1..Len(files[d])} : d \in DOMAIN files}

\* Session s is read back from the day file of its start date.
InStore(s) ==
    /\ getFilePathForDay(s.startTime) \in DOMAIN files
    /\ \E i \in 1..Len(files[getFilePathForDay(s.startTime)]) :
          ParseRow(files[getFilePathForDay(s.startTime)][i]) = s

\* The n-th created session has a closed copy in memory that is also stored.
ClosedAndPersisted(n) ==
    /\ PosOf("closed", n) > 0
    /\ Len(sessions) >= n
    /\ sessions[n].id = created[n].id
    /\ sessions[n].startTime = created[n].startTime
    /\ sessions[n].filePath = created[n].filePath
    /\ sessions[n].endTime # Undefined
    /\ sessions[n].endTime[1] >= sessions[n].startTime
    /\ sessions[n].duration = sessions[n].endTime[1] - sessions[n].startTime
    /\ InStore(sessions[n])

\* C1: after any sequence of startTracking, stopTracking and
\* handleEditorChange calls, in any editor context, at most one session is
\* open: of the sessions created so far at most one has not been closed, it
\* is the current one, and no session in the list or in the store lacks an
\* endTime.
C1_AtMostOneOpen ==
    /\ Cardinality(OpenSessions) <= 1
    /\ \A n \in OpenSessions :
          /\ n = Len(created)
          /\ currentSession # Undefined
          /\ currentSession[1].id = created[n].id
          /\ currentSession[1].endTime = Undefined
    /\ \A i \in 1..Len(sessions) : sessions[i].endTime # Undefined
    /\ \A s \in StoredSessions : s.endTime # Undefined

\* A second session is open after the first one was rotated out.
C1_Witness ==
    /\ pc = <<>>
    /\ Len(created) >= 2
    /\ OpenSessions = {Len(created)}

\* C2: every call of startTracking made while a session is open closes the
\* prior session (endTime >= startTime, duration final, stored) before the
\* new session is opened, whatever the editor context at the call.
C2_StartClosesPrior ==
    (pc = <<>> /\ call.name = "startTracking" /\ call.prev # 0)
        => /\ ClosedAndPersisted(call.prev)
           /\ PosOf("open", call.prev + 1) > PosOf("write", call.prev)

\* C3: a session is written to the store only by closing it: every record
\* in the store has its endTime, every write of a session follows its close,
\* and no write has been issued for the session that is open.
C3_StoredOnlyWhenClosed ==
    /\ \A s \in StoredSessions : s.endTime # Undefined
    /\ \A n \in 1..Len(created) :
          PosOf("write", n) > 0 =>
              PosOf("closed", n) > 0 /\ PosOf("closed", n) < PosOf("write", n)
    /\ (currentSession # Undefined /\ currentSession[1].endTime = Undefined)
          => PosOf("write", currentOrdinal) = 0

\* A session is open while the store holds the record of an earlier one.
C3_Witness ==
    /\ pc = <<>>
    /\ currentSession # Undefined
    /\ currentSession[1].endTime = Undefined
    /\ StoredSessions # {}

AllSessions ==
    {sessions[i] : i \in 1..Len(sessions)} \cup {dbSessions[i] : i \in 1..Len(dbSessions)}
        \cup StoredSessions \cup {currentSession[i] : i \in 1..Len(currentSession)}

C6_DurationInv ==
    \A s \in AllSessions :
        /\ s.duration >= 0
        /\ s.endTime # Undefined =>
              s.endTime[1] >= s.startTime /\ s.duration = s.endTime[1] - s.startTime

\* C6: every closed session has duration = endTime - startTime; every
\* session has duration >= 0 and, when endTime is set, endTime >= startTime;
\* a step outside a handler's closing steps (the periodic duration refresh)
\* changes no closed session in memory or in the store.
C6_DurationConsistent ==
    /\ []C6_DurationInv
    /\ [][ /\ \A i \in 1..Len(sessions) : sessions'[i] = sessions[i]
           /\ (pc = <<>> /\ pc' = <<>>) => (sessions' = sessions /\ files' = files) ]_vars

\* The refresh has updated the open session after an earlier one was closed.
C6_Witness ==
    /\ pc = <<>>
    /\ Len(sessions) >= 1
    /\ currentSession # Undefined
    /\ currentSession[1].duration > 0
    /\ \E i \in 1..Len(sessions) : sessions[i].duration > 0

\* C7: two distinct sessions created by startTracking whose startTime falls
\* in the same day partition have different ids, also when they are created
\* in immediate succession.
C7_UniqueIdsPerDay ==
    \A m, n \in 1..Len(created) :
        (m # n /\ formatDateToString(created[m].startTime)
                    = formatDateToString(created[n].startTime))
            => created[m].id # created[n].id

\* C8: handleEditorChange with a session open and an active editor on
\* another file closes and persists the open session and opens a new one for
\* the new file; on the same file it leaves the open session unchanged.
C8_RotationInv ==
    (pc = <<>> /\ call.name = "handleEditorChange" /\ call.prev # 0
        /\ call.editor # NoEditor)
        => IF call.editor # created[call.prev].filePath
           THEN /\ ClosedAndPersisted(call.prev)
                /\ currentOrdinal = call.prev + 1
                /\ currentSession # Undefined
                /\ currentSession[1].filePath = call.editor
                /\ currentSession[1].endTime = Undefined
                /\ PosOf("open", currentOrdinal) > PosOf("write", call.prev)
           ELSE /\ currentOrdinal = call.prev
                /\ currentSession # Undefined
                /\ currentSession[1].endTime = Undefined
                /\ PosOf("closed", call.prev) = 0

C9_NoAutoResume ==
    [][ (HandleEditorChange /\ currentSession = Undefined)
        => /\ pc' = <<>>
           /\ UNCHANGED <<currentSession, sessions, files, dbSessions, outbox,
                          timer, activeTimers, created, events>> ]_vars

\* handleEditorChange has run with an editor on a file and no session open.
C9_Witness ==
    /\ pc = <<>>
    /\ call.name = "handleEditorChange"
    /\ call.prev = 0
    /\ call.editor # NoEditor
    /\ currentSession = Undefined

\* C10: during continuous inactivity longer than the idle threshold, over
\* any number of periodic checks and startMonitoring calls, onIdleDetected
\* is called exactly once: never twice without a recordActivity in between,
\* and once as soon as one check has run over the threshold.
C10_IdleSingleFire ==
    /\ idleFired <= 1
    /\ idleChecked >= 1 => (idleFired = 1 /\ idleDetected)

\* Two intervals are scheduled and two checks have run over the threshold.
C10_Witness ==
    /\ Cardinality(idleActiveTimers) >= 2
    /\ idleChecked >= 2
    /\ idleFired = 1

\* C11: recordActivity calls onUserReturned exactly once per idle episode:
\* the step that takes the monitor from idle to not idle makes the one call
\* of the episode, a step that starts and ends not idle makes none, and
\* whenever the call has been made isIdle() is false.
C11_ReturnedOncePerEpisode ==
    /\ [](returned <= 1 /\ (returned = 1 => ~idleDetected))
    /\ [][ /\ (idleDetected /\ ~idleDetected') => returned' = 1
           /\ (~idleDetected /\ ~idleDetected') => returned' = returned
           /\ lastActivity' # lastActivity => ~idleDetected' ]_vars

\* The user has returned from an idle episode and has been active again.
C11_Witness ==
    /\ returned = 1
    /\ ~idleDetected
    /\ idleFired = 0
    /\ lastActivity >= 3 * DefaultThreshold * MsPerSecond

\* C14: once stopMonitoring or dispose has run (this.timer is undefined), no
\* idle check fires that calls onIdleDetected, whatever startMonitoring and
\* stopMonitoring calls came before.
C14_NoCheckAfterStop ==
    [][ idleTimer = 0 => idleFired' <= idleFired ]_vars

\* C13: when no handler is running, at most one duration-refresh interval
\* is scheduled while a session is open and none while no session is open,
\* after any sequence of startTracking, handleEditorChange and stopTracking.
C13_NoDanglingTimer ==
    pc = <<>> =>
        /\ isTracking => Cardinality(activeTimers) <= 1
        /\ ~isTracking => activeTimers = {}

\* The n-th created session is open and nothing of it has been stored.
StillOpen(n) ==
    /\ pc = <<>>
    /\ currentSession # Undefined
    /\ currentSession[1].endTime = Undefined
    /\ currentOrdinal = n
    /\ PosOf("closed", n) = 0
    /\ PosOf("write", n) = 0

\* C12: idle detection by itself closes no session: after a check of the
\* idle monitor, and after an idle prompt that was dismissed or answered
\* Continue Tracking, the session that was open is still open and unstored;
\* a session is closed only inside startTracking, stopTracking,
\* handleEditorChange or the prompt's Stop Tracking branch.
C12_IdleNeverCloses ==
    /\ []((call.name \in {"checkIdleState", "promptKeep"} /\ call.prev # 0)
             => StillOpen(call.prev))
    /\ [][ (Len(events') > Len(events) /\ events'[Len(events')][1] = "closed")
           => call.name \in {"startTracking", "stopTracking",
                             "handleEditorChange", "promptStop"} ]_vars

\* Idle was detected while a session was open, the prompt was answered
\* without Stop Tracking, and the session is still open.
C12_Witness ==
    /\ idleDetected
    /\ call.name = "promptKeep"
    /\ call.prev # 0
    /\ StillOpen(call.prev)

\* The fields of a session other than its category and notes.
CoreOf(s) == [f \in (DOMAIN s) \ {"category", "notes"} |-> s[f]]

\* C15. Answering the category pick or the notes input changes only the open
\* session, and of it only the category (the notes); with no open session it
\* changes nothing: the closed sessions in memory and the stored rows stay as
\* they are. A command invoked with no open session shows its warning and
\* opens no prompt.
C15_EditsOnlyOpenSession ==
    [][ /\ (categoryPicks' < categoryPicks \/ notesInputs' < notesInputs) =>
              /\ sessions' = sessions /\ files' = files /\ dbSessions' = dbSessions
              /\ (currentSession = Undefined) = (currentSession' = Undefined)
              /\ currentSession # Undefined =>
                    /\ CoreOf(currentSession'[1]) = CoreOf(currentSession[1])
                    /\ categoryPicks' < categoryPicks =>
                          currentSession'[1].notes = currentSession[1].notes
                    /\ notesInputs' < notesInputs =>
                          currentSession'[1].category = currentSession[1].category
        /\ (pc = <<>> /\ ~isTracking) =>
              categoryPicks' <= categoryPicks /\ notesInputs' <= notesInputs
        /\ (call' # call /\ call'.name \in {"addCategory", "addNotes"}) => isTracking
        /\ (call' # call /\ call'.name \in {"addCategoryRejected", "addNotesRejected"}) =>
              ~isTracking /\ UNCHANGED <<sessionVars, categoryPicks, notesInputs>>
      ]_vars

\* A category was picked for the open session, a pick opened while tracking was
\* answered after the stop, and a command was rejected, all with a closed
\* session in memory and in the store.
C15_Witness ==
    /\ pc = <<>>
    /\ ~isTracking
    /\ call.name = "addNotesRejected"
    /\ Len(sessions) = 1
    /\ sessions[1].category = <<"Coding">>
    /\ sessions[1].notes = Undefined
    /\ InStore(sessions[1])

\* The UTC calendar date of an instant, as a day number.
UtcDate(t) == t \div MsPerDay

\* The sessions read back from day file d.
Partition(d) == {ParseRow(files[d][i]) : i \in 1..Len(files[d])}

\* The place of the last save with this id into this day file, 0 when none.
LastSave(id, d) ==
    IF \E k \in 1..Len(saves) : saves[k].id = id /\ UtcDate(saves[k].startTime) = d
    THEN CHOOSE k \in 1..Len(saves) :
            /\ saves[k].id = id /\ UtcDate(saves[k].startTime) = d
            /\ \A j \in (k + 1)..Len(saves) :
                  ~(saves[j].id = id /\ UtcDate(saves[j].startTime) = d)
    ELSE 0

\* C16. After any sequence of saveSession calls every id occurs in at most
\* one row of a day file, the row of an id holds the fields of the latest save
\* of that id into the file, and the file has exactly one row for each id
\* saved into it.
C16_ReplaceInPlace ==
    \A d \in DOMAIN files :
        /\ \A i, j \in 1..Len(files[d]) :
              ParseRow(files[d][i]).id = ParseRow(files[d][j]).id => i = j
        /\ \A i \in 1..Len(files[d]) :
              /\ LastSave(ParseRow(files[d][i]).id, d) > 0
              /\ ParseRow(files[d][i]) = saves[LastSave(ParseRow(files[d][i]).id, d)]
        /\ Len(files[d]) =
              Cardinality({saves[k].id : k \in {j \in 1..Len(saves) :
                                                  UtcDate(saves[j].startTime) = d}})

\* An id was saved twice into one day file, with different notes.
C16_Witness ==
    /\ Len(saves) >= 2
    /\ saves[1].id = saves[2].id
    /\ UtcDate(saves[1].startTime) = UtcDate(saves[2].startTime)
    /\ saves[1].notes # saves[2].notes
    /\ Len(files[UtcDate(saves[1].startTime)]) = 1

\* C17. There is exactly one day file for each calendar date on which a saved
\* session starts, every day file holds only sessions that start on its date,
\* and the latest save of each id into a date is in that day file and in no
\* other.
C17_PartitionPerDate ==
    /\ DOMAIN files = {UtcDate(saves[k].startTime) : k \in 1..Len(saves)}
    /\ \A d \in DOMAIN files : \A s \in Partition(d) : UtcDate(s.startTime) = d
    /\ \A k \in 1..Len(saves) :
          LastSave(saves[k].id, UtcDate(saves[k].startTime)) = k =>
              {d \in DOMAIN files : saves[k] \in Partition(d)}
                  = {UtcDate(saves[k].startTime)}

\* Sessions of two dates were saved and there are two day files.
C17_Witness ==
    /\ Len(saves) >= 2
    /\ UtcDate(saves[1].startTime) # UtcDate(saves[2].startTime)
    /\ Cardinality(DOMAIN files) = 2

\* The calendar date of an instant on the machine, as a day number.
LocalDate(t) == (t + tzOffset) \div MsPerDay

\* C18. Every stored session is in the day file of the machine-local date of
\* its startTime, and loading that local day returns it, in every time zone.
C18_PartitionIsLocalDate ==
    \A d \in DOMAIN files : \A s \in Partition(d) :
        /\ d = LocalDate(s.startTime)
        /\ \E i \in 1..Len(loadSessions(files, <<LocalDate(s.startTime) * MsPerDay - tzOffset,
                                              (LocalDate(s.startTime) + 1) * MsPerDay - tzOffset - 1>>)) :
              loadSessions(files, <<LocalDate(s.startTime) * MsPerDay - tzOffset,
                                    (LocalDate(s.startTime) + 1) * MsPerDay - tzOffset - 1>>)[i] = s

\* C19. The session read back from the day file written for a session is that
\* session, whatever characters its fileName and notes hold.
C19_CsvRoundTrip ==
    (csvSession # Undefined /\ csvLoaded # Undefined) => csvLoaded[1] = csvSession

\* A text without comma, quote, line feed or carriage return.
IsPlain(text) == \A i \in 1..Len(text) : text[i] \notin {Comma, Quote, LF, CR}

\* The round trip of the values the record store is used with: a plain
\* fileName with plain notes that are not empty.
PlainRoundTrip ==
    (/\ csvSession # Undefined /\ csvLoaded # Undefined
     /\ IsPlain(csvSession[1].fileName)
     /\ csvSession[1].notes # <<<<>>>>
     /\ csvSession[1].notes # Undefined => IsPlain(csvSession[1].notes[1]))
        => csvLoaded[1] = csvSession

\* A line of nine cells with an id, a startTime that is a date, an endTime
\* that is empty or a date, and a duration that is a number.
WellFormed(line) ==
    /\ Len(parseCSVLine(line)) = 9
    /\ parseCSVLine(line)[1] # <<>>
    /\ NewDate(parseCSVLine(line)[5]) # <<>>
    /\ parseCSVLine(line)[6] # <<>> => NewDate(parseCSVLine(line)[6]) # <<>>
    /\ NumberOf(parseCSVLine(line)[7]) # <<>>

\* The records of the well-formed lines of a file, in their order.
RECURSIVE WellFormedRecords(_)
WellFormedRecords(lines) ==
    IF lines = <<>> THEN <<>>
    ELSE (IF WellFormed(Head(lines)) THEN <<SessionOfLine(Head(lines))>> ELSE <<>>)
            \o WellFormedRecords(Tail(lines))

\* C20. Loading a day file returns the records of its well-formed lines and
\* nothing else: a malformed line yields no session and leaves the records of
\* the other lines as they are.
C20_MalformedRowsSkipped ==
    (csvFile # Undefined /\ csvLoaded # Undefined)
        => csvLoaded[1] = WellFormedRecords(DataLines(csvFile[1]))


\* The calendar dates from the date of startDate to the date of endDate.
DatesOfRange(startDate, endDate) == UtcDate(startDate)..UtcDate(endDate)

\* C24. For every startDate <= endDate, whatever their times of day,
\* loadSessions(startDate, endDate) returns the records of the day files of
\* every date from startDate's date to endDate's date inclusive, sorted
\* ascending by startTime.
C24_RangeInclusive ==
    \A startDate, endDate \in Times :
        startDate <= endDate =>
            loadSessions(files, <<startDate, endDate>>)
                = SortByStartTime(loadAvailableFiles(files,
                        DOMAIN files \cap DatesOfRange(startDate, endDate)))


\* C29. Tracking works without an open file: when startTracking() has
\* returned, the tracker is tracking, also when no editor was active at the
\* call.
C29_WorkspaceLevelTracking ==
    (pc = <<>> /\ call.name = "startTracking") => isTracking


C22_CacheUnchangedOnFailure ==
    (saveLog # Undefined /\ saveLog[1].failed /\ saveLog[1].returned /\ ~down) =>
        dbSessions = saveLog[1].cache

\* C23. After a crash inside the save path and a restart, every record that
\* was in the day file before the interrupted save is still returned by
\* loading the day file, whatever is loaded or saved later.
C23_CrashLosesNothing ==
    (~down /\ saving = Undefined) =>
        \A r \in durable :
            \E i \in 1..Len(loadSessionsFromFile(files, r[1])) :
                loadSessionsFromFile(files, r[1])[i].id = r[2]


\* The bucket a record is counted in.
BucketOf(r) == IF r.category = Undefined THEN "Uncategorized" ELSE r.category[1]

\* The records of the day files of a range of dates, or of all of them.
RecordsOfRange(range) ==
    loadAvailableFiles(files,
        IF range = Undefined THEN DOMAIN files
        ELSE DOMAIN files \cap DatesOfRange(range[1], range[2]))

\* The sum of the durations of the records in this bucket.
RECURSIVE SumOfBucket(_, _)
SumOfBucket(records, bucket) ==
    IF records = <<>> THEN 0
    ELSE (IF BucketOf(Head(records)) = bucket THEN Head(records).duration ELSE 0)
            + SumOfBucket(Tail(records), bucket)

RECURSIVE SumOfDurations(_)
SumOfDurations(list) ==
    IF list = <<>> THEN 0 ELSE Head(list).duration + SumOfDurations(Tail(list))

\* These entries are the per-category totals of these records.
IsCategoryTotals(result, records) ==
    /\ \A i, j \in 1..Len(result) : result[i].category = result[j].category => i = j
    /\ {result[i].category : i \in 1..Len(result)}
          = {BucketOf(records[k]) : k \in 1..Len(records)}
    /\ \A i \in 1..Len(result) :
          result[i].duration = SumOfBucket(records, result[i].category)
    /\ SumOfDurations(result) = SumOfDurations(records)

\* C25. getCategoryStats returns one entry per category of the records of the
\* given range of dates, or of all day files, with the sum of their
\* durations, records without a category under "Uncategorized"; the
\* durations of the entries add up to the total duration of these records.
C25_CategoryTotals ==
    categoryStats # Undefined =>
        IsCategoryTotals(categoryStats[1], RecordsOfRange(statsRange[1]))

\* The same relative to the records loadSessions returns for the range.
CategoryTotalsOfLoaded ==
    categoryStats # Undefined =>
        IsCategoryTotals(categoryStats[1], loadSessions(files, statsRange[1]))

\* Two records of one bucket were summed.
CategoryTotalsOfLoaded_Witness ==
    /\ categoryStats # Undefined
    /\ \E i \in 1..Len(categoryStats[1]) :
          /\ categoryStats[1][i].category = "Uncategorized"
          /\ categoryStats[1][i].duration = 3000


\* C26. After a migration every record of the old file is in the day file of
\* the date of its startTime and in no other, and every record a day file
\* held before the migration is still in it.
C26_MigrationLosesNothing ==
    (migrLog # Undefined /\ migrLog[1].result) =>
        /\ \A i \in 1..Len(migrLog[1].file[1]) :
              {d \in DOMAIN files : ParseRow(migrLog[1].file[1][i]) \in Partition(d)}
                  = {UtcDate(ParseRow(migrLog[1].file[1][i]).startTime)}
        /\ \A d \in DOMAIN migrLog[1].before :
              \A i \in 1..Len(migrLog[1].before[d]) :
                  \E s \in Partition(d) : s.id = ParseRow(migrLog[1].before[d][i]).id

\* C27. A migration that runs after a completed one leaves the day files as
\* they are, also when sessions were saved in between, and after every
\* migration the old file exists with the content it had.
C27_MigrationIdempotent ==
    (migrLog # Undefined /\ migrLog[1].result) =>
        /\ migrLog[1].run >= 2 => files = migrLog[1].before
        /\ legacyFile = migrLog[1].file

\* The same for two migrations with no save in between.
MigrationRepeatable ==
    (migrLog # Undefined /\ migrLog[1].result /\ migrLog[1].run >= 2 /\ saves = <<>>) =>
        files = migrLog[1].before


\* C28. Without a webhook URL sendSessionEvent hands nothing to fetch; with
\* one, a request that ends in a network error or a non-2xx response makes no
\* call reject, and the completion of a request, whatever its outcome, leaves
\* the tracker's sessions and the store as they are.
C28_DeliveryFailureSwallowed ==
    [][ /\ (webhookUrl = Undefined => outbox' = <<>>)
        /\ ~hookRejected'
        /\ (hookDone' # hookDone =>
               UNCHANGED <<currentSession, sessions, files, dbSessions, timer,
                           lastActiveFile, pc>>) ]_vars

\* With a URL configured, the request of a completed and stored session has
\* failed and the error was logged.
C28_Witness ==
    /\ webhookUrl # Undefined
    /\ hookErrors >= 1
    /\ Len(sessions) >= 1
    /\ files # <<>>


\* C30. When the user resumes activity after idle was detected and the idle
\* prompt is still open, that activity dismisses the prompt (the
\* close-notification command is issued and the notification reference
\* cleared) if auto-dismiss is enabled, and does not if it is disabled.
C30_AutoDismissOnActivity ==
    [][ (idleDetected /\ ~idleDetected' /\ prompts > 0) =>
            ((activeNotification /\ ~activeNotification') <=> autoDismissEnabled) ]_vars


\* The detector on its own: when a notification reference is set, the first
\* activity after idle clears it exactly if auto-dismiss is enabled.
DismissWhenReferenceSet ==
    [][ (idleDetected /\ ~idleDetected' /\ activeNotification) =>
            (~activeNotification' <=> autoDismissEnabled) ]_vars


\* C32. After saveSession, loading the day file returns every record it
\* returned before with the same field values, the record with the id of the
\* saved session aside.
C32_SaveKeepsOtherRecords ==
    (csvSaved # Undefined /\ csvLoaded # Undefined) =>
        \A i \in 1..Len(csvBefore[1]) :
            csvBefore[1][i].id # csvSaved[1].id =>
                \E j \in 1..Len(csvLoaded[1]) : csvLoaded[1][j] = csvBefore[1][i]

\* C33. After saveSession of a new session into a day file, whatever rows the
\* file held, loading the day file returns the new session.
C33_SavedDespiteMalformedRow ==
    (csvSaved # Undefined /\ csvLoaded # Undefined) =>
        \E j \in 1..Len(csvLoaded[1]) : csvLoaded[1][j] = csvSaved[1]


\* C39. The sessions closed by the tracker never overlap in time: of any two
\* of them, one has ended by the time the other starts.
C39_ClosedSessionsDisjoint ==
    \A i, j \in 1..Len(sessions) :
        (i # j /\ sessions[i].endTime # Undefined /\ sessions[j].endTime # Undefined) =>
            \/ sessions[i].endTime[1] <= sessions[j].startTime
            \/ sessions[j].endTime[1] <= sessions[i].startTime

\* Two sessions of positive length have been closed, the second by a rotation
\* or a later start.
C39_Witness ==
    /\ Len(sessions) >= 2
    /\ \A i \in 1..2 : sessions[i].endTime # Undefined /\ sessions[i].duration > 0

\* C34. After every handler of the extension has completed, the context key
\* timeTracking.isTracking equals timeTracker.isTracking().
C34_ContextFlagMatches ==
    pc = <<>> => contextFlag = isTracking

\* C35. Whenever a session is open and no handler is running, an idle check
\* of the idle monitor is scheduled.
C35_MonitorRunsWhileTracking ==
    (pc = <<>> /\ isTracking) => idleActiveTimers # {}

\* C36. The delayed auto-start opens a session only when auto-track is
\* enabled at that moment and tracking was not stopped by command since
\* activation.
C36_AutoStartOnlyWhileEnabled ==
    (autoStartLog # Undefined /\ autoStartLog[1].opened) =>
        (autoStartLog[1].enabled /\ ~autoStartLog[1].stopped)

\* C31. With auto-track enabled and a workspace folder present, a session is
\* eventually open once the auto-start has been scheduled by activation, and
\* once a folder has been added while no session was open.
C31_AutoStartLeadsToTracking ==
    (autoStartTimer \/ (pc # <<>> /\ call.name = "foldersAdded")) ~> isTracking

\* C37. A category or note whose entry is confirmed with a success message
\* has been applied to the session that was open when the command was
\* invoked.
C37_AppliedToSessionOfCommand ==
    (editLog # Undefined /\ editLog[1].message) =>
        editLog[1].appliedTo = editLog[1].askedFor

\* C38. Stop Tracking selected in an idle prompt closes no other session than
\* the one that was open when the prompt was shown.
C38_StopClosesPromptedSession ==
    (call.name = "promptStop" /\ call.prev # 0) => call.prev = promptFor

====
